---- MODULE Spec2Model ----
(***************************************************************************)
(* A model of the pub crawl planner (src/planner.py): one planner session  *)
(* (PubCrawlPlanner) that serves plan_crawl calls one after the other.     *)
(*                                                                         *)
(* Numbers.  The planner computes in floating point; the model computes    *)
(* in exact integer arithmetic on the same quantities:                     *)
(*   - coordinates are integer pairs <<x, y>>;                             *)
(*   - a progress value t = dot / line_length_sq is kept as its numerator  *)
(*     over the denominator ProgressDen(start, end), so that comparisons   *)
(*     of progress values are comparisons of integers;                     *)
(*   - uniformity_weight is kept in hundredths (100 stands for 1.0), which *)
(*     is the factor uniformity_weight * 100 of evaluate_route;            *)
(*   - a score total + c * sqrt(variance) is kept as the triple            *)
(*     (n, total, q) with variance = q / n^2, and two scores are compared  *)
(*     exactly (ScoreLess), without ever taking a square root.             *)
(* Route elements are integers: a pub index 0 .. n_pubs-1, or one of the   *)
(* two markers Start and End, which are negative.                          *)
(***************************************************************************)
EXTENDS Integers, Sequences, FiniteSets, TLC

VARIABLES
    \* ---- the session (PubCrawlPlanner.__init__)
    pub_coords,        \* [0..n-1 -> <<x, y>>]
    distance_matrix,   \* [0..n-1 -> [0..n-1 -> Nat]]
    distance_cache,    \* [set of <<a, b>> keys -> Nat]
    start_point,       \* <<x, y>>, or <<>> for None
    end_point,
    \* ---- the running plan_crawl call
    pc,                \* where the call stands
    calls,             \* plan_crawl calls started on this session
    num_pubs,          \* the requested count
    uniformity_weight, \* in hundredths
    candidates,        \* sequence of pub indices
    start_distances,   \* the oracle's answers, in the order of candidates
    end_distances,
    requests,          \* batched oracle requests issued by this call
    samples,           \* iterations of the sampling loop completed
    draws,             \* the subsets random.sample returned, in order (kept when prev.on)
    selected,          \* the set of pubs the running sample works on
    nn_route,          \* the tour nearest_neighbor_order built for it
    route,             \* the tour two_opt_with_fixed_endpoints holds
    greedy_route,      \* greedy_with_improvement's route
    remaining,         \* greedy_with_improvement's remaining set
    best_route,        \* sample_and_optimize's best_route
    best_set,          \* FALSE while best_score is still float('inf')
    rejected,          \* samples discarded by the forward-progress filter
    steps,             \* search steps (sample constructions, greedy picks) begun
    result,            \* what plan_crawl returned (a record), or <<>>
    err,               \* the exception raised, or ""
    \* ---- the previous call, kept for comparing two calls
    prev,
    \* ---- the arguments and the value of a function called on its own
    probe,
    \* ---- the handler of POST /api/plan (PubCrawlPlannerApp.plan_crawl)
    app_pc,            \* where the handler stands
    request,           \* the PlanCrawlRequest in hand, or <<>>
    plan,              \* the handler's result = self.planner.plan_crawl(...), or <<>>
    legs,              \* the handler's legs: None, or the list get_route_legs returned
    direction_requests,\* get_directions requests issued for this request
    response,          \* what the caller receives, or <<>>
    \* ---- the precomputation (PubCrawlPlannerApp.trigger_precomputation)
    precompute_in_progress, \* self.precompute_in_progress
    pubs_data,         \* len(self.pubs_data)
    distances_file,    \* the number of pubs in the stored matrix, or None while absent
    app_planner,       \* the number of pubs self.planner was built from, or None
    trigger_pc,        \* where each call of trigger_precomputation stands
    trigger_response,  \* the status each call answered, or None
    status,            \* the last PrecomputeStatusResponse, or <<>>
    \* ---- the shared routes (table shared_routes)
    shared_routes,     \* the stored rows
    utcnow,            \* datetime.utcnow(), in days
    share_responses    \* the answers the shared-route handlers have given, in order

session_vars == <<pub_coords, distance_matrix, distance_cache, start_point, end_point>>
call_vars == <<pc, calls, num_pubs, uniformity_weight, candidates, start_distances,
               end_distances, requests, samples, draws, selected, nn_route, route,
               greedy_route, remaining, best_route, best_set, rejected, steps,
               result, err>>
app_vars == <<app_pc, request, plan, legs, direction_requests, response>>
precompute_vars == <<precompute_in_progress, pubs_data, distances_file, app_planner,
                     trigger_pc, trigger_response, status>>
share_vars == <<shared_routes, utcnow, share_responses>>
service_vars == <<precompute_vars, share_vars>>
vars == <<session_vars, call_vars, prev, probe, app_vars, service_vars>>

----------------------------------------------------------------------------
(* Route elements *)

Start == -1
End == -2
\* The value that stands for "get_distance raised".
FAIL == -1

IsPub(e) == e >= 0

Max(a, b) == IF a >= b THEN a ELSE b
Min(a, b) == IF a <= b THEN a ELSE b
Abs(a) == IF a >= 0 THEN a ELSE -a

n_pubs == Cardinality(DOMAIN pub_coords)

RECURSIVE SeqSum(_)
SeqSum(s) ==
    IF s = <<>> THEN 0
    ELSE Head(s) + (CHOOSE v \in {SeqSum(t) : t \in {Tail(s)}} : TRUE)

SeqToSet(s) == {s[i] : i \in 1..Len(s)}

\* The pub indices of a route, in order: [idx for idx in route if isinstance(idx, int)]
PubSequence(r) == SelectSeq(r, IsPub)

----------------------------------------------------------------------------
(* Geometry: project_onto_line and perpendicular_distance *)

LineLengthSq(s, e) == (e[1] - s[1]) * (e[1] - s[1]) + (e[2] - s[2]) * (e[2] - s[2])

\* The denominator of every progress value for this start and end.
ProgressDen(s, e) == IF LineLengthSq(s, e) = 0 THEN 1 ELSE LineLengthSq(s, e)

\* Mutant: the point is measured from the end towards the start.
ProjectBackwards(s, e, p) ==
    LET dx == s[1] - e[1]
        dy == s[2] - e[2]
        px == p[1] - e[1]
        py == p[2] - e[2]
        line_length_sq == dx * dx + dy * dy
    IN  IF line_length_sq = 0 THEN 0
        ELSE Max(0, Min(line_length_sq, px * dx + py * dy))

\* Mutant: t is returned as it is, without max(0, min(1, t)).
ProjectUnclamped(s, e, p) ==
    LET dx == e[1] - s[1]
        dy == e[2] - s[2]
        px == p[1] - s[1]
        py == p[2] - s[2]
        line_length_sq == dx * dx + dy * dy
    IN  IF line_length_sq = 0 THEN 0
        ELSE px * dx + py * dy

\* project_onto_line: max(0, min(1, t)) with t = dot / line_length_sq, as the
\* numerator over ProgressDen(s, e); 0 when start = end.
ProjectOntoLine(s, e, p) ==
    LET dx == e[1] - s[1]
        dy == e[2] - s[2]
        px == p[1] - s[1]
        py == p[2] - s[2]
        line_length_sq == dx * dx + dy * dy
    IN  IF line_length_sq = 0 THEN 0
        ELSE Max(0, Min(line_length_sq, px * dx + py * dy))

\* perpendicular_distance, up to the increasing map x |-> sqrt(x) / line_length * 111000
\* (start # end) or x |-> sqrt(x) * 111000 (start = end): the planner only ever
\* sorts by it, for one start and end at a time, so the order is what is kept.
PerpendicularDistance(s, e, p) ==
    LET dx == e[1] - s[1]
        dy == e[2] - s[2]
        px == p[1] - s[1]
        py == p[2] - s[2]
        cross == Abs(dx * py - dy * px)
    IN  IF dx * dx + dy * dy = 0 THEN px * px + py * py
        ELSE cross

\* The progress of pub idx: project_onto_line(start, end, self.pub_coords[idx]).
Progress(s, e, idx) == ProjectOntoLine(s, e, pub_coords[idx])

----------------------------------------------------------------------------
(* list.sort(key=...): a stable sort of a sequence by an integer key *)

RECURSIVE InsertByKey(_, _, _)
InsertByKey(x, s, key) ==
    IF s = <<>> THEN <<x>>
    ELSE IF key[x] < key[Head(s)] THEN <<x>> \o s
         ELSE <<Head(s)>> \o InsertByKey(x, Tail(s), key)

RECURSIVE StableSort(_, _)
StableSort(s, key) ==
    IF s = <<>> THEN <<>>
    ELSE InsertByKey(s[Len(s)], StableSort(SubSeq(s, 1, Len(s) - 1), key), key)

----------------------------------------------------------------------------
(* The distance accessor and the sums over a route *)

\* Mutant: a pair missing from the cache has distance 0 (a dict.get with a default).
GetDistanceOrZero(a, b) ==
    IF a = Start \/ b = End
    THEN IF <<a, b>> \in DOMAIN distance_cache THEN distance_cache[<<a, b>>] ELSE 0
    ELSE IF IsPub(a) /\ IsPub(b) THEN distance_matrix[a][b]
         ELSE FAIL

\* get_distance: the value, or FAIL where the code raises ValueError.
GetDistance(a, b) ==
    IF a = Start \/ b = End
    THEN IF <<a, b>> \in DOMAIN distance_cache THEN distance_cache[<<a, b>>] ELSE FAIL
    ELSE IF IsPub(a) /\ IsPub(b) THEN distance_matrix[a][b]
         ELSE FAIL

\* The leg lengths of a route: get_distance(route[i], route[i+1]) for each i.
Segments(r) == [i \in 1..(Len(r) - 1) |-> GetDistance(r[i], r[i + 1])]

\* Whether every leg of the route resolves (no get_distance call raises).
Resolvable(r) == \A i \in 1..(Len(r) - 1) : GetDistance(r[i], r[i + 1]) # FAIL

\* Mutant: a route without legs has no distance.
RouteDistanceOfLegs(r) == IF Len(r) >= 2 /\ Resolvable(r) THEN SeqSum(Segments(r)) ELSE FAIL

\* route_distance: the sum of the legs, or FAIL.
RouteDistance(r) == IF Resolvable(r) THEN SeqSum(Segments(r)) ELSE FAIL

\* Mutant: the legs from start and to end are left out of the segments.
EvaluateRouteInner(r) ==
    LET segments == [i \in 1..(Len(r) - 3) |-> GetDistance(r[i + 1], r[i + 2])]
        n == Len(segments)
        total_distance == SeqSum(segments)
        squares == SeqSum([i \in 1..n |-> segments[i] * segments[i]])
    IN  [n |-> n, total |-> total_distance,
         q |-> IF n > 1 THEN n * squares - total_distance * total_distance ELSE 0]

\* evaluate_route without its weight: n legs, their total, and q = n * sum(d^2) - total^2,
\* so that variance = q / n^2 and uniformity_penalty = sqrt(q) / n (0 when n <= 1).
\* The score is total + uniformity_weight * 100 * sqrt(q) / n.
EvaluateRoute(r) ==
    LET segments == Segments(r)
        n == Len(segments)
        total_distance == SeqSum(segments)
        squares == SeqSum([i \in 1..n |-> segments[i] * segments[i]])
    IN  [n |-> n, total |-> total_distance,
         q |-> IF n > 1 THEN n * squares - total_distance * total_distance ELSE 0]

\* K < m * sqrt(P), for integers K, m > 0, P >= 0, in integer arithmetic.
LtSqrt(K, m, P) ==
    IF K < 0 THEN TRUE
    ELSE LET q == K \div m
             r == K % m
             e == (r * r) \div m
         IN  IF P >= (q + 1) * (q + 1) THEN TRUE
             ELSE IF P <= q * q THEN FALSE
             ELSE m * (P - q * q) - 2 * q * r - e >= 1

\* K > m * sqrt(P), likewise.
GtSqrt(K, m, P) ==
    IF K <= 0 THEN FALSE
    ELSE LET q == K \div m
             r == K % m
             e == (r * r) \div m
             g == (r * r) % m
             left == m * (P - q * q) - 2 * q * r - e
         IN  IF P <= q * q THEN (P < q * q \/ r > 0)
             ELSE IF P >= (q + 1) * (q + 1) THEN FALSE
             ELSE left < 0 \/ (left = 0 /\ g > 0)

\* score(a) < score(b) for two evaluations with the same number of legs and weight
\* c (hundredths): a.total + c * sqrt(a.q) / n < b.total + c * sqrt(b.q) / n, that is
\* c * (sqrt(a.q) - sqrt(b.q)) < D with D = n * (b.total - a.total).
ScoreLess(a, b, c) ==
    LET D == a.n * (b.total - a.total)
        K == c * c * (a.q + b.q) - D * D
    IN  IF c = 0 \/ a.q = b.q THEN a.total < b.total
        ELSE IF a.q > b.q THEN D > 0 /\ LtSqrt(K, 2 * c * c, a.q * b.q)
        ELSE D >= 0 \/ GtSqrt(K, 2 * c * c, a.q * b.q)

----------------------------------------------------------------------------
(* The forward-progress constraint *)

\* Mutant: the comparison of line 306 is not strict.
ViolatesNotStrict(s, e, r, tn, td) ==
    LET pub_sequence == PubSequence(r)
        progress_values == [i \in 1..Len(pub_sequence) |-> Progress(s, e, pub_sequence[i])]
    IN  IF Len(pub_sequence) < 2 THEN FALSE
        ELSE \E i \in 2..Len(progress_values) :
                td * progress_values[i] <=
                    td * progress_values[i - 1] - tn * ProgressDen(s, e)

\* violates_forward_progress_constraint(start, end, route, threshold), the threshold
\* given as the fraction tn / td: progress[i] < progress[i-1] - threshold for some i.
ViolatesForwardProgress(s, e, r, tn, td) ==
    \E pub_sequence \in {PubSequence(r)} :
        \E progress_values \in
               {[i \in 1..Len(pub_sequence) |-> Progress(s, e, pub_sequence[i])]} :
            IF Len(pub_sequence) < 2 THEN FALSE
            ELSE \E i \in 2..Len(progress_values) :
                    td * progress_values[i] <
                        td * progress_values[i - 1] - tn * ProgressDen(s, e)

\* Mutant: the call sites pass threshold=1.0, which no regression exceeds.
ViolatesLax(s, e, r) == ViolatesForwardProgress(s, e, r, 1, 1)

\* The call sites pass threshold=0.05.
Violates(s, e, r) == ViolatesForwardProgress(s, e, r, 1, 20)

----------------------------------------------------------------------------
(* select_candidate_pubs *)

\* The registry in its own order: range(self.n_pubs).
Registry == [i \in 1..n_pubs |-> i - 1]

\* lst[:m] of a list of length n: the first m elements, all of them when m > n,
\* and all but the last -m when m is negative.
SliceLen(n, m) == IF m >= 0 THEN Min(m, n) ELSE Max(0, n + m)

\* Mutant: the candidates are returned in the order of their corridor distance.
SelectCandidatePubsByProximity(s, e, num_candidates) ==
    LET proximity == [i \in DOMAIN pub_coords |-> PerpendicularDistance(s, e, pub_coords[i])]
        by_proximity == StableSort(Registry, proximity)
    IN  SubSeq(by_proximity, 1, SliceLen(n_pubs, Min(num_candidates, n_pubs)))

\* select_candidate_pubs: the pubs sorted by corridor distance, the first
\* min(num_candidates, n_pubs) of them taken and sorted by progress.
SelectCandidatePubs(s, e, num_candidates) ==
    LET proximity == [i \in DOMAIN pub_coords |-> PerpendicularDistance(s, e, pub_coords[i])]
        progress == [i \in DOMAIN pub_coords |-> Progress(s, e, i)]
        by_proximity == StableSort(Registry, proximity)
        top_candidates == SubSeq(by_proximity, 1, SliceLen(n_pubs, Min(num_candidates, n_pubs)))
    IN  StableSort(top_candidates, progress)

----------------------------------------------------------------------------
(* nearest_neighbor_order *)

\* Mutant: moving backward costs nothing.
BacktrackPenaltyNone == 0 * 5000

BacktrackPenalty == 5000

\* min(remaining, key=...) over a set of small integers: the first minimum in the
\* set's iteration order, which for pub indices is ascending.
ArgMin(S, key) ==
    CHOOSE p \in S : \A q \in S : key[p] < key[q] \/ (key[p] = key[q] /\ p <= q)

\* The route built so far, extended to the end; <<>> when a get_distance call raises.
\* scoring_fn is multiplied through by ProgressDen(s, e).
RECURSIVE NearestNeighborFrom(_, _, _, _)
NearestNeighborFrom(s, e, r, rem) ==
    IF rem = {} THEN Append(r, End)
    ELSE LET current == r[Len(r)]
             current_progress == IF IsPub(current) THEN Progress(s, e, current) ELSE 0
             scoring_fn == [p \in rem |->
                 ProgressDen(s, e) * GetDistance(current, p)
                   + Max(0, current_progress - Progress(s, e, p)) * BacktrackPenalty]
             nearest == ArgMin(rem, scoring_fn)
         IN  IF \E p \in rem : GetDistance(current, p) = FAIL THEN <<>>
             ELSE NearestNeighborFrom(s, e, Append(r, nearest), rem \ {nearest})

NearestNeighborOrder(s, e, pub_ids) == NearestNeighborFrom(s, e, <<Start>>, pub_ids)

----------------------------------------------------------------------------
(* two_opt_with_fixed_endpoints: one scan of the while loop *)

\* Mutant: route[:i] + route[i:j][::-1] + route[j+1:], which loses route[j].
ReverseSegmentDropping(r, i, j) ==
    [p \in 1..(Len(r) - 1) |->
        IF p - 1 < i THEN r[p]
        ELSE IF p - 1 <= j - 1 THEN r[(i + j - 1 - (p - 1)) + 1]
        ELSE r[p + 1]]

\* route[:i] + route[i:j+1][::-1] + route[j+1:], i and j counted from 0 as in the code.
ReverseSegment(r, i, j) ==
    [p \in 1..Len(r) |-> IF i <= p - 1 /\ p - 1 <= j THEN r[(i + j - (p - 1)) + 1] ELSE r[p]]

\* Mutant: a reversal that ties with the route is taken too.
ImprovesOrTies(new_route, old_route, w) ==
    IF w > 0
    THEN \E new_score \in {EvaluateRoute(new_route)}, old_score \in {EvaluateRoute(old_route)} :
             ~ScoreLess(old_score, new_score, w)
    ELSE RouteDistance(new_route) <= RouteDistance(old_route)

\* The comparison of lines 181-190: the weighted score when uniformity_weight > 0,
\* the plain distance otherwise.
Improves(new_route, old_route, w) ==
    IF w > 0
    THEN \E new_score \in {EvaluateRoute(new_route)}, old_score \in {EvaluateRoute(old_route)} :
             ScoreLess(new_score, old_score, w)
    ELSE RouteDistance(new_route) < RouteDistance(old_route)

\* Whether the scan stops at the pair (i, j): the reversal passes the
\* forward-progress check, and then either a get_distance call raises or the
\* comparison accepts it.
Decisive(s, e, r, w, i, j) ==
    \E new_route \in {ReverseSegment(r, i, j)} :
        /\ ~Violates(s, e, new_route)
        /\ \/ ~Resolvable(new_route)
           \/ ~Resolvable(r)
           \/ Improves(new_route, r, w)

\* The inner for loop from j on, j in range(i + 1, len - 1): the first j the scan
\* stops at, 0 when it stops at none.
RECURSIVE InnerScan(_, _, _, _, _, _)
InnerScan(s, e, r, w, i, j) ==
    IF j > Len(r) - 2 THEN 0
    ELSE IF Decisive(s, e, r, w, i, j) THEN j
    ELSE InnerScan(s, e, r, w, i, j + 1)

\* The outer for loop from i on, i in range(1, len - 2): the first pair the scan
\* stops at, <<>> when it stops at none.
RECURSIVE ScanFrom(_, _, _, _, _)
ScanFrom(s, e, r, w, i) ==
    IF i > Len(r) - 3 THEN <<>>
    ELSE LET j == InnerScan(s, e, r, w, i, i + 1)
         IN  IF j # 0 THEN <<i, j>> ELSE ScanFrom(s, e, r, w, i + 1)

\* Mutant: the outer loop is range(2, len(route) - 2).
FirstDecisiveFromSecond(s, e, r, w) == ScanFrom(s, e, r, w, 2)

\* One pass of the while loop: both for loops from their first index.
FirstDecisive(s, e, r, w) == ScanFrom(s, e, r, w, 1)

----------------------------------------------------------------------------
(* greedy_with_improvement: one iteration of its for loop *)

GreedyBacktrackPenalty == 10000

\* Whether scoring_fn(p) is float('inf'): current_progress - pub_progress > 0.05.
Disqualified(s, e, current, p) ==
    LET current_progress == IF IsPub(current) THEN Progress(s, e, current) ELSE 0
    IN  20 * (current_progress - Progress(s, e, p)) > ProgressDen(s, e)

\* Mutant: scoring_fn without the backtrack_penalty term.
GreedyPickUnpenalised(s, e, current, rem) ==
    LET allowed == {p \in rem : ~Disqualified(s, e, current, p)}
        fallback == [p \in rem |-> GetDistance(current, p) + GetDistance(p, End)]
    IN  IF allowed # {} THEN ArgMin(allowed, fallback) ELSE ArgMin(rem, fallback)

\* The pub the iteration appends (remaining is not empty, every distance resolves).
GreedyPick(s, e, current, rem) ==
    LET current_progress == IF IsPub(current) THEN Progress(s, e, current) ELSE 0
        allowed == {p \in rem : ~Disqualified(s, e, current, p)}
        scoring_fn == [p \in rem |->
            ProgressDen(s, e) * (GetDistance(current, p) + GetDistance(p, End))
              + Max(0, current_progress - Progress(s, e, p)) * GreedyBacktrackPenalty]
        fallback == [p \in rem |-> GetDistance(current, p) + GetDistance(p, End)]
    IN  IF allowed # {} THEN ArgMin(allowed, scoring_fn) ELSE ArgMin(rem, fallback)

----------------------------------------------------------------------------
(* The inputs the model draws from *)

\* Bounds of the model.
MaxCalls == 2
\* n_samples: sample_and_optimize is called with n_samples=1000; the model runs
\* the same loop for MaxSamples iterations.
MaxSamples == 2

\* Mutant: the dispatch is one count later.
SamplingLimitLate == 12 + 1

\* optimize_route: k <= 12 samples, k > 12 is greedy.
SamplingLimit == 12

FromSeq(s) == [i \in 0..(Len(s) - 1) |-> s[i + 1]]

\* Registries: the pubs' coordinates.
\* Four pubs at progress 0.1, 0.9, 0.3, 0.7 of the segment (0,0)-(100,0), all
\* at the same distance from it.
CoordsAxis == FromSeq(<< <<10, 5>>, <<90, 5>>, <<30, 5>>, <<70, 5>> >>)
\* Four pubs at progress 0.1, 0.4, 0.2, 0.38.
CoordsNear == FromSeq(<< <<10, 1>>, <<40, 2>>, <<20, 3>>, <<38, 4>> >>)
\* Five pubs, so that a request for one pub leaves a pub out of the candidates.
CoordsFive == FromSeq(<< <<50, 9>>, <<20, 1>>, <<80, 2>>, <<52, 0>>, <<40, 3>> >>)
\* Thirteen pubs along the segment, enough for the greedy regime.
CoordsMany == [i \in 0..12 |-> <<5 + 7 * i, i % 3>>]

\* Thirteen pubs 0.04 of the segment apart: a step back to a neighbour stays within
\* the 0.05 a greedy pick may regress.
CoordsDense == [i \in 0..12 |-> <<20 + 4 * i, i % 3>>]

\* Twelve pubs along the segment: a request for twelve of them samples all of them.
CoordsTwelve == [i \in 0..11 |-> <<6 + 8 * i, i % 3>>]

\* Distance matrices: walking distances that follow the coordinates ...
GridMatrix(coords) ==
    [i \in DOMAIN coords |-> [j \in DOMAIN coords |->
        IF i = j THEN 0
        ELSE (Abs(coords[i][1] - coords[j][1]) + Abs(coords[i][2] - coords[j][2])) \div 10 + 1]]
\* ... the same with one-way streets (the matrix is not assumed symmetric) ...
OneWayMatrix(coords) ==
    [i \in DOMAIN coords |-> [j \in DOMAIN coords |->
        IF i = j THEN 0
        ELSE GridMatrix(coords)[i][j] + (IF j < i THEN 4 ELSE 0)]]
\* ... and distances that have nothing to do with the coordinates.
ScrambledMatrix(coords) ==
    [i \in DOMAIN coords |-> [j \in DOMAIN coords |->
        IF i = j THEN 0 ELSE ((3 * i + 5 * j) % 7) + 1]]

Registries ==
    {[coords |-> CoordsAxis, matrix |-> GridMatrix(CoordsAxis)],
     [coords |-> CoordsAxis, matrix |-> ScrambledMatrix(CoordsAxis)],
     [coords |-> CoordsNear, matrix |-> OneWayMatrix(CoordsNear)],
     [coords |-> CoordsFive, matrix |-> GridMatrix(CoordsFive)],
     [coords |-> CoordsFive, matrix |-> ScrambledMatrix(CoordsFive)],
     [coords |-> CoordsMany, matrix |-> ScrambledMatrix(CoordsMany)]}

\* Start and end points of a request.
PointA == <<0, 0>>
PointB == <<100, 0>>
EndpointPairs == {<<PointA, PointB>>, <<PointB, PointA>>, <<PointA, PointA>>}

\* Requested counts, by the size of the registry (a registry of thirteen is only
\* asked for a greedy plan, a registry of twelve for the two counts on either side of
\* the dispatch of optimize_route), and weights (hundredths).
Counts(n) ==
    IF n = 12 THEN {12, 13}
    ELSE IF n > 5 THEN {13}
    ELSE {-1, 0, 1, 2, 3, 5, 13}
Weights == {0, 100}

\* What the oracle may answer to a batched request for m pubs: distances growing
\* along the candidates, shrinking along them, or all equal.
OracleAnswers(m) ==
    {[i \in 1..m |-> i], [i \in 1..m |-> m + 1 - i], [i \in 1..m |-> 2]}

NoPoint == <<>>
NoResult == <<>>

EmptyCache == [key \in {} |-> 0]

\* prev when calls are not recorded for comparison, and when they are: the first
\* call of the session is then recorded as it returns and the calls after it are given
\* the same arguments, the same oracle answers and the same random draws.
NoPrev == [on |-> FALSE, set |-> FALSE]
Recording == [on |-> TRUE, set |-> FALSE]

----------------------------------------------------------------------------
(* The session and the steps of a plan_crawl call *)

\* Optional[...] values of the handler: None, or a value.
None == [present |-> FALSE, value |-> <<>>]
Some(x) == [present |-> TRUE, value |-> x]

\* No request is being handled.
IdleApp ==
    /\ app_pc = "idle"
    /\ request = <<>>
    /\ plan = <<>>
    /\ legs = None
    /\ direction_requests = <<>>
    /\ response = <<>>

\* The callers that may have a call of trigger_precomputation open at once.
Callers == 1..2

\* The application object as __init__ leaves it, with an empty table.
IdleService ==
    /\ precompute_in_progress = FALSE
    /\ pubs_data = 0
    /\ distances_file = None
    /\ app_planner = None
    /\ trigger_pc = [c \in Callers |-> "idle"]
    /\ trigger_response = [c \in Callers |-> None]
    /\ status = <<>>
    /\ shared_routes = {}
    /\ utcnow = 0
    /\ share_responses = <<>>

IdleCall ==
    /\ pc = "idle"
    /\ num_pubs = 0
    /\ uniformity_weight = 0
    /\ candidates = <<>>
    /\ start_distances = <<>>
    /\ end_distances = <<>>
    /\ requests = 0
    /\ samples = 0
    /\ draws = <<>>
    /\ selected = {}
    /\ nn_route = <<>>
    /\ route = <<>>
    /\ greedy_route = <<>>
    /\ remaining = {}
    /\ best_route = <<>>
    /\ best_set = FALSE
    /\ rejected = 0
    /\ steps = 0
    /\ result = NoResult
    /\ err = ""

\* The same of the next state.
IdleCallNext ==
    /\ pc' = "idle"
    /\ num_pubs' = 0
    /\ uniformity_weight' = 0
    /\ candidates' = <<>>
    /\ start_distances' = <<>>
    /\ end_distances' = <<>>
    /\ requests' = 0
    /\ samples' = 0
    /\ draws' = <<>>
    /\ selected' = {}
    /\ nn_route' = <<>>
    /\ route' = <<>>
    /\ greedy_route' = <<>>
    /\ remaining' = {}
    /\ best_route' = <<>>
    /\ best_set' = FALSE
    /\ rejected' = 0
    /\ steps' = 0
    /\ result' = NoResult
    /\ err' = ""

\* __init__: the registry and the matrix as given, an empty cache, no points.
Init ==
    /\ \E reg \in Registries :
          /\ pub_coords = reg.coords
          /\ distance_matrix = reg.matrix
    /\ distance_cache = EmptyCache
    /\ start_point = NoPoint
    /\ end_point = NoPoint
    /\ calls = 0
    /\ IdleCall
    /\ prev = NoPrev
    /\ probe = <<>>
    /\ IdleApp
    /\ IdleService

\* An exception leaves the call: nothing else of the call's state changes.
Raise(kind) ==
    /\ pc' = "raised"
    /\ err' = kind

\* plan_crawl, lines 47-52: the points are stored and the candidates selected.
StartPlan(s, e, k, w) ==
    /\ pc = "idle"
    /\ calls < MaxCalls
    /\ prev.set => <<s, e, k, w>> = prev.inputs
    /\ calls' = calls + 1
    /\ start_point' = s
    /\ end_point' = e
    /\ num_pubs' = k
    /\ uniformity_weight' = w
    /\ candidates' = SelectCandidatePubs(s, e, k * 4)
    /\ pc' = "fetch_start"
    /\ UNCHANGED <<pub_coords, distance_matrix, distance_cache, start_distances,
                   end_distances, requests, samples, draws, selected, nn_route, route,
                   greedy_route, remaining, best_route, best_set, rejected, steps,
                   result, err, prev, probe, service_vars>>

\* Mutant: the request candidates -> end is left out.
FetchStartOnly(answer) ==
    /\ pc = "fetch_start"
    /\ prev.set => (~prev.first_failed /\ answer = prev.start_distances)
    /\ requests' = requests + 1
    /\ start_distances' = answer
    /\ pc' = "optimize"
    /\ UNCHANGED <<session_vars, calls, num_pubs, uniformity_weight, candidates,
                   end_distances, samples, draws, selected, nn_route, route,
                   greedy_route, remaining, best_route, best_set, rejected, steps,
                   result, err, prev, probe, app_vars,
                   service_vars>>

\* precompute_endpoint_distances, line 111: the batched request start -> candidates.
FetchStart(answer) ==
    /\ pc = "fetch_start"
    /\ prev.set => (~prev.first_failed /\ answer = prev.start_distances)
    /\ requests' = requests + 1
    /\ start_distances' = answer
    /\ pc' = "fetch_end"
    /\ UNCHANGED <<session_vars, calls, num_pubs, uniformity_weight, candidates,
                   end_distances, samples, draws, selected, nn_route, route,
                   greedy_route, remaining, best_route, best_set, rejected, steps,
                   result, err, prev, probe, app_vars,
                   service_vars>>

\* The same request failing in the oracle (raise_for_status, an OSRM error).
FetchStartFails ==
    /\ pc = "fetch_start"
    /\ prev.set => prev.first_failed
    /\ requests' = requests + 1
    /\ Raise("Exception")
    /\ UNCHANGED <<session_vars, calls, num_pubs, uniformity_weight, candidates,
                   start_distances, end_distances, samples, draws, selected, nn_route,
                   route, greedy_route, remaining, best_route, best_set, rejected,
                   steps, result, prev, probe, app_vars,
                   service_vars>>

\* Mutant: the answers are added to the entries the cache already holds.
CacheAddedTo(cache, cands, sd, ed) ==
    LET keys == {<<Start, cands[i]>> : i \in 1..Len(cands)}
                  \cup {<<cands[i], End>> : i \in 1..Len(cands)}
        pos(idx) == CHOOSE i \in 1..Len(cands) : cands[i] = idx
        fresh(key) == IF key[1] = Start THEN sd[pos(key[2])] ELSE ed[pos(key[1])]
    IN  [key \in (DOMAIN cache) \cup keys |->
            IF key \in keys
            THEN IF key \in DOMAIN cache THEN cache[key] + fresh(key) ELSE fresh(key)
            ELSE cache[key]]

\* Mutant: an entry the cache already holds is kept, only missing keys are written.
CacheWrittenIfAbsent(cache, cands, sd, ed) ==
    LET keys == {<<Start, cands[i]>> : i \in 1..Len(cands)}
                  \cup {<<cands[i], End>> : i \in 1..Len(cands)}
        pos(idx) == CHOOSE i \in 1..Len(cands) : cands[i] = idx
    IN  [key \in (DOMAIN cache) \cup keys |->
            IF key \in DOMAIN cache THEN cache[key]
            ELSE IF key[1] = Start THEN sd[pos(key[2])] ELSE ed[pos(key[1])]]

\* The cache after lines 117-119.
CacheWritten(cache, cands, sd, ed) ==
    LET keys == {<<Start, cands[i]>> : i \in 1..Len(cands)}
                  \cup {<<cands[i], End>> : i \in 1..Len(cands)}
        pos(idx) == CHOOSE i \in 1..Len(cands) : cands[i] = idx
    IN  [key \in (DOMAIN cache) \cup keys |->
            IF key \in keys
            THEN IF key[1] = Start THEN sd[pos(key[2])] ELSE ed[pos(key[1])]
            ELSE cache[key]]

\* Lines 114-119: the batched request candidates -> end, then the cache is written.
FetchEnd(answer) ==
    /\ pc = "fetch_end"
    /\ prev.set => (~prev.second_failed /\ answer = prev.end_distances)
    /\ requests' = requests + 1
    /\ end_distances' = answer
    /\ distance_cache' = CacheWritten(distance_cache, candidates, start_distances, answer)
    /\ pc' = "optimize"
    /\ UNCHANGED <<pub_coords, distance_matrix, start_point, end_point, calls, num_pubs,
                   uniformity_weight, candidates, start_distances, samples, draws,
                   selected, nn_route, route, greedy_route, remaining, best_route,
                   best_set, rejected, steps, result, err, prev, probe, app_vars,
                   service_vars>>

FetchEndFails ==
    /\ pc = "fetch_end"
    /\ prev.set => prev.second_failed
    /\ requests' = requests + 1
    /\ Raise("Exception")
    /\ UNCHANGED <<session_vars, calls, num_pubs, uniformity_weight, candidates,
                   start_distances, end_distances, samples, draws, selected, nn_route,
                   route, greedy_route, remaining, best_route, best_set, rejected,
                   steps, result, prev, probe, app_vars,
                   service_vars>>

\* optimize_route, and the first lines of the function it calls.
OptimizeRoute ==
    /\ pc = "optimize"
    /\ IF num_pubs <= SamplingLimit
       THEN /\ pc' = "sample"
            /\ UNCHANGED <<greedy_route, remaining>>
       ELSE /\ pc' = "greedy"
            /\ greedy_route' = <<Start>>
            /\ remaining' = SeqToSet(candidates)
    /\ best_route' = <<>>
    /\ best_set' = FALSE
    /\ UNCHANGED <<session_vars, calls, num_pubs, uniformity_weight, candidates,
                   start_distances, end_distances, requests, samples, draws, selected,
                   nn_route, route, rejected, steps, result, err, prev, probe, app_vars,
                   service_vars>>

----------------------------------------------------------------------------
(* sample_and_optimize *)

\* Mutant: the sample comes one pub short.
SamplesShort(cands, k) == {S \in SUBSET SeqToSet(cands) : Cardinality(S) = k - 1}

\* random.sample(candidates, k) returns k distinct candidates; the order of the
\* list it returns is lost at once in set(pub_ids), line 200.
Samples(cands, k) == {S \in SUBSET SeqToSet(cands) : Cardinality(S) = k}

\* One iteration up to the tour construction: lines 142, 145, 163.
SampleDraw(sel) ==
    /\ pc = "sample"
    /\ samples < MaxSamples
    /\ sel \in Samples(candidates, num_pubs)
    /\ (prev.set /\ Len(draws) < Len(prev.draws)) => sel = prev.draws[Len(draws) + 1]
    /\ draws' = IF prev.on THEN Append(draws, sel) ELSE draws
    /\ selected' = sel
    /\ steps' = steps + 1
    /\ LET r == NearestNeighborOrder(start_point, end_point, sel)
       IN  /\ nn_route' = r
           /\ route' = r
           /\ IF r = <<>> THEN Raise("ValueError")
              ELSE pc' = "two_opt" /\ err' = err
    /\ UNCHANGED <<session_vars, calls, num_pubs, uniformity_weight, candidates,
                   start_distances, end_distances, requests, samples, greedy_route,
                   remaining, best_route, best_set, rejected, result, prev, probe, app_vars,
                   service_vars>>

\* random.sample raises ValueError: the sample is larger than the population, or
\* negative.
SampleRaises ==
    /\ pc = "sample"
    /\ samples < MaxSamples
    /\ num_pubs < 0 \/ num_pubs > Len(candidates)
    /\ Raise("ValueError")
    /\ UNCHANGED <<session_vars, calls, num_pubs, uniformity_weight, candidates,
                   start_distances, end_distances, requests, samples, draws, selected,
                   nn_route, route, greedy_route, remaining, best_route, best_set,
                   rejected, steps, result, prev, probe, app_vars,
                   service_vars>>

\* One scan of the while loop.  Stopping at a pair, the reversal is taken and the loop
\* goes round again (or a get_distance call raised).  A full scan without
\* acceptance ends two_opt_with_fixed_endpoints: route is returned to
\* sample_and_optimize (line 145), or through greedy_with_improvement to plan_crawl.
TwoOptScan ==
    /\ pc = "two_opt"
    /\ \E ij \in {FirstDecisive(start_point, end_point, route, uniformity_weight)} :
           IF ij # <<>>
           THEN \E new_route \in {ReverseSegment(route, ij[1], ij[2])} :
                    /\ IF Resolvable(new_route) /\ Resolvable(route)
                       THEN route' = new_route /\ UNCHANGED <<pc, err>>
                       ELSE route' = route /\ Raise("ValueError")
                    /\ UNCHANGED best_route
           ELSE /\ IF num_pubs <= SamplingLimit
                   THEN pc' = "filter" /\ UNCHANGED best_route
                   ELSE pc' = "result" /\ best_route' = route
                /\ UNCHANGED <<route, err>>
    /\ UNCHANGED <<session_vars, calls, num_pubs, uniformity_weight, candidates,
                   start_distances, end_distances, requests, samples, draws, selected,
                   nn_route, greedy_route, remaining, best_set, rejected, steps,
                   result, prev, probe, app_vars,
                   service_vars>>

\* The loop body's locals (selected, route) are rebound by the next iteration
\* before they are read again: the model forgets them when the iteration ends.
IterationOver ==
    /\ selected' = {}
    /\ nn_route' = <<>>
    /\ route' = <<>>

\* Lines 148-149: the sample's route violates the constraint and is dropped.
SampleRejected ==
    /\ pc = "filter"
    /\ Violates(start_point, end_point, route)
    /\ rejected' = rejected + 1
    /\ samples' = samples + 1
    /\ pc' = "sample"
    /\ IterationOver
    /\ UNCHANGED <<session_vars, calls, num_pubs, uniformity_weight, candidates,
                   start_distances, end_distances, requests, draws, greedy_route,
                   remaining, best_route, best_set, steps, result, err, prev, probe, app_vars,
                   service_vars>>

\* Mutant: lines 154-156 without the comparison, every scored route is kept.
SampleScoredKeepsLast ==
    /\ pc = "filter"
    /\ ~Violates(start_point, end_point, route)
    /\ IF ~Resolvable(route)
       THEN /\ Raise("ValueError")
            /\ UNCHANGED <<best_route, best_set, samples, selected, nn_route, route>>
       ELSE /\ best_route' = route
            /\ best_set' = TRUE
            /\ samples' = samples + 1
            /\ pc' = "sample"
            /\ err' = err
            /\ IterationOver
    /\ UNCHANGED <<session_vars, calls, num_pubs, uniformity_weight, candidates,
                   start_distances, end_distances, requests, draws, greedy_route,
                   remaining, rejected, steps, result, prev, probe, app_vars,
                   service_vars>>

\* Lines 152-156: the route is scored and kept when it beats the best so far.
SampleScored ==
    /\ pc = "filter"
    /\ ~Violates(start_point, end_point, route)
    /\ IF ~Resolvable(route)
       THEN /\ Raise("ValueError")
            /\ UNCHANGED <<best_route, best_set, samples, selected, nn_route, route>>
       ELSE /\ IF \/ ~best_set
                  \/ ScoreLess(EvaluateRoute(route), EvaluateRoute(best_route),
                               uniformity_weight)
               THEN best_route' = route
               ELSE best_route' = best_route
            /\ best_set' = TRUE
            /\ samples' = samples + 1
            /\ pc' = "sample"
            /\ err' = err
            /\ IterationOver
    /\ UNCHANGED <<session_vars, calls, num_pubs, uniformity_weight, candidates,
                   start_distances, end_distances, requests, draws, greedy_route,
                   remaining, rejected, steps, result, prev, probe, app_vars,
                   service_vars>>

\* The loop has run n_samples times: return best_route.
SampleFinish ==
    /\ pc = "sample"
    /\ samples = MaxSamples
    /\ pc' = "result"
    /\ UNCHANGED <<session_vars, calls, num_pubs, uniformity_weight, candidates,
                   start_distances, end_distances, requests, samples, draws, selected,
                   nn_route, route, greedy_route, remaining, best_route, best_set,
                   rejected, steps, result, err, prev, probe, app_vars,
                   service_vars>>

----------------------------------------------------------------------------
(* greedy_with_improvement *)

\* Mutant: remaining is the candidates list itself, not a copy: a pick is removed
\* from the candidates too.
GreedyStepAliased ==
    /\ pc = "greedy"
    /\ Len(greedy_route) - 1 < num_pubs
    /\ steps' = steps + 1
    /\ LET current == greedy_route[Len(greedy_route)]
       IN  IF \/ remaining = {}
              \/ \E p \in remaining : GetDistance(current, p) = FAIL
              \/ \E p \in remaining : GetDistance(p, End) = FAIL
           THEN /\ Raise("ValueError")
                /\ UNCHANGED <<greedy_route, remaining, candidates>>
           ELSE LET best_pub == GreedyPick(start_point, end_point, current, remaining)
                IN  /\ greedy_route' = Append(greedy_route, best_pub)
                    /\ remaining' = remaining \ {best_pub}
                    /\ candidates' = SelectSeq(candidates, LAMBDA c : c # best_pub)
                    /\ UNCHANGED <<pc, err>>
    /\ UNCHANGED <<session_vars, calls, num_pubs, uniformity_weight,
                   start_distances, end_distances, requests, samples, draws, selected,
                   nn_route, route, best_route, best_set, rejected, result, prev, probe, app_vars,
                   service_vars>>

\* One iteration of the for loop, lines 228-256.
GreedyStep ==
    /\ pc = "greedy"
    /\ Len(greedy_route) - 1 < num_pubs
    /\ steps' = steps + 1
    /\ LET current == greedy_route[Len(greedy_route)]
       IN  IF \/ remaining = {}
              \/ \E p \in remaining : GetDistance(current, p) = FAIL
              \/ \E p \in remaining : GetDistance(p, End) = FAIL
           THEN /\ Raise("ValueError")
                /\ UNCHANGED <<greedy_route, remaining>>
           ELSE LET best_pub == GreedyPick(start_point, end_point, current, remaining)
                IN  /\ greedy_route' = Append(greedy_route, best_pub)
                    /\ remaining' = remaining \ {best_pub}
                    /\ UNCHANGED <<pc, err>>
    /\ UNCHANGED <<session_vars, calls, num_pubs, uniformity_weight, candidates,
                   start_distances, end_distances, requests, samples, draws, selected,
                   nn_route, route, best_route, best_set, rejected, result, prev, probe, app_vars,
                   service_vars>>

\* Lines 258-261 and 163: the pubs picked go to two_opt_with_fixed_endpoints, which
\* starts from their nearest-neighbour ordering.
GreedyRefine ==
    /\ pc = "greedy"
    /\ Len(greedy_route) - 1 = num_pubs
    /\ LET picked == SeqToSet(SubSeq(greedy_route, 2, Len(greedy_route)))
           r == NearestNeighborOrder(start_point, end_point, picked)
       IN  /\ selected' = picked
           /\ nn_route' = r
           /\ route' = r
           /\ IF r = <<>> THEN Raise("ValueError")
              ELSE pc' = "two_opt" /\ err' = err
    /\ UNCHANGED <<session_vars, calls, num_pubs, uniformity_weight, candidates,
                   start_distances, end_distances, requests, samples, draws,
                   greedy_route, remaining, best_route, best_set, rejected, steps,
                   result, prev, probe, app_vars,
                   service_vars>>

----------------------------------------------------------------------------
(* plan_crawl, lines 61-71, and the return to the caller *)

\* The assumed walking speed, metres per minute (line 69).
WalkingSpeed == 80

\* Mutant: the time is taken at 60 metres per minute.
EstimatedTimeSlow(total_distance) == [num |-> total_distance, den |-> 60]

\* total_distance / 80.0, kept as the fraction num / den.
EstimatedTime(total_distance) == [num |-> total_distance, den |-> WalkingSpeed]

BuildResult ==
    /\ pc = "result"
    /\ IF RouteDistance(best_route) = FAIL
       THEN Raise("ValueError") /\ UNCHANGED result
       ELSE /\ result' = [route |-> best_route,
                          total_distance |-> RouteDistance(best_route),
                          estimated_time_minutes |->
                              EstimatedTime(RouteDistance(best_route)),
                          num_pubs |-> num_pubs]
            /\ pc' = "done"
            /\ err' = err
    /\ UNCHANGED <<session_vars, calls, num_pubs, uniformity_weight, candidates,
                   start_distances, end_distances, requests, samples, draws, selected,
                   nn_route, route, greedy_route, remaining, best_route, best_set,
                   rejected, steps, prev, probe, app_vars,
                   service_vars>>

\* The call as it is recorded for comparison: its arguments, what the oracle
\* answered, what random.sample drew, and its outcome.
Recorded ==
    [on |-> TRUE, set |-> TRUE,
     inputs |-> <<start_point, end_point, num_pubs, uniformity_weight>>,
     first_failed |-> (requests = 1 /\ err = "Exception"),
     second_failed |-> (requests = 2 /\ err = "Exception"),
     start_distances |-> start_distances,
     end_distances |-> end_distances,
     draws |-> draws,
     result |-> result,
     err |-> err]

\* Mutant: the cache is emptied as the call ends.
ReturnDiscards ==
    /\ pc \in {"done", "raised"}
    /\ IdleCallNext
    /\ distance_cache' = EmptyCache
    /\ prev' = IF prev.on /\ ~prev.set THEN Recorded ELSE prev
    /\ UNCHANGED <<pub_coords, distance_matrix, start_point, end_point, calls, probe,
                   service_vars>>

\* The call is over (returned or raised): its locals are gone, the session stays.
Return ==
    /\ pc \in {"done", "raised"}
    /\ IdleCallNext
    /\ prev' = IF prev.on /\ ~prev.set THEN Recorded ELSE prev
    /\ UNCHANGED <<session_vars, calls, probe, service_vars>>

----------------------------------------------------------------------------

Next ==
    \/ pc = "idle" /\ \E ep \in EndpointPairs, k \in Counts(n_pubs), w \in Weights :
                          StartPlan(ep[1], ep[2], k, w) /\ UNCHANGED app_vars
    \/ pc = "fetch_start" /\ \E answer \in OracleAnswers(Len(candidates)) : FetchStart(answer)
    \/ FetchStartFails
    \/ pc = "fetch_end" /\ \E answer \in OracleAnswers(Len(candidates)) : FetchEnd(answer)
    \/ FetchEndFails
    \/ OptimizeRoute
    \/ pc = "sample" /\ \E sel \in Samples(candidates, num_pubs) : SampleDraw(sel)
    \/ SampleRaises
    \/ TwoOptScan
    \/ SampleRejected
    \/ SampleScored
    \/ SampleFinish
    \/ GreedyStep
    \/ GreedyRefine
    \/ BuildResult
    \/ Return /\ UNCHANGED app_vars

Spec == Init /\ [][Next]_vars

\* The same session with its first call recorded and then repeated, over three of
\* the registries.
IdemRegistries ==
    {[coords |-> CoordsNear, matrix |-> OneWayMatrix(CoordsNear)],
     [coords |-> CoordsFive, matrix |-> ScrambledMatrix(CoordsFive)],
     [coords |-> CoordsMany, matrix |-> ScrambledMatrix(CoordsMany)]}

InitIdem ==
    /\ \E reg \in IdemRegistries :
          /\ pub_coords = reg.coords
          /\ distance_matrix = reg.matrix
    /\ distance_cache = EmptyCache
    /\ start_point = NoPoint
    /\ end_point = NoPoint
    /\ calls = 0
    /\ IdleCall
    /\ prev = Recording
    /\ probe = <<>>
    /\ IdleApp
    /\ IdleService

SpecIdem == InitIdem /\ [][Next]_vars

\* The same session with the while loop of two_opt_with_fixed_endpoints going
\* round as long as it can (a running loop is not suspended), over two registries.
LiveRegistries ==
    {[coords |-> CoordsAxis, matrix |-> ScrambledMatrix(CoordsAxis)],
     [coords |-> CoordsMany, matrix |-> ScrambledMatrix(CoordsMany)]}

InitLive ==
    /\ \E reg \in LiveRegistries :
          /\ pub_coords = reg.coords
          /\ distance_matrix = reg.matrix
    /\ distance_cache = EmptyCache
    /\ start_point = NoPoint
    /\ end_point = NoPoint
    /\ calls = 0
    /\ IdleCall
    /\ prev = NoPrev
    /\ probe = <<>>
    /\ IdleApp
    /\ IdleService

SpecLive == InitLive /\ [][Next]_vars /\ WF_vars(TwoOptScan)

\* The same session over a small registry and the dense one, asked for greedy plans.
GreedyRegistries ==
    {[coords |-> CoordsAxis, matrix |-> ScrambledMatrix(CoordsAxis)],
     [coords |-> CoordsDense, matrix |-> ScrambledMatrix(CoordsDense)]}

InitGreedy ==
    /\ \E reg \in GreedyRegistries :
          /\ pub_coords = reg.coords
          /\ distance_matrix = reg.matrix
    /\ distance_cache = EmptyCache
    /\ start_point = NoPoint
    /\ end_point = NoPoint
    /\ calls = 0
    /\ IdleCall
    /\ prev = NoPrev
    /\ probe = <<>>
    /\ IdleApp
    /\ IdleService

SpecGreedy == InitGreedy /\ [][Next]_vars

\* The same session over registries on either side of the dispatch of
\* optimize_route: twelve pubs, thirteen pubs, and a small registry.
BoundaryRegistries ==
    {[coords |-> CoordsAxis, matrix |-> GridMatrix(CoordsAxis)],
     [coords |-> CoordsTwelve, matrix |-> ScrambledMatrix(CoordsTwelve)],
     [coords |-> CoordsMany, matrix |-> ScrambledMatrix(CoordsMany)]}

InitBoundary ==
    /\ \E reg \in BoundaryRegistries :
          /\ pub_coords = reg.coords
          /\ distance_matrix = reg.matrix
    /\ distance_cache = EmptyCache
    /\ start_point = NoPoint
    /\ end_point = NoPoint
    /\ calls = 0
    /\ IdleCall
    /\ prev = NoPrev
    /\ probe = <<>>
    /\ IdleApp
    /\ IdleService

SpecBoundary == InitBoundary /\ [][Next]_vars

----------------------------------------------------------------------------
(* violates_forward_progress_constraint on its own: a session whose only step is a
   call of the function, on any route from a bounded set *)

\* The longest route the function is called on.
MaxProbeLen == 4

\* The thresholds it is called with: 0.05 (the call sites), 0.1 (the default) and
\* 0.02, each as <<numerator, denominator>>.
Thresholds == {<<1, 20>>, <<1, 10>>, <<1, 50>>}

\* Routes: sequences of pubs and markers, the markers anywhere.
ProbeRoutes ==
    UNION {[1..m -> DOMAIN pub_coords \cup {Start, End}] : m \in 0..MaxProbeLen}

InitFP ==
    /\ pub_coords \in {CoordsNear, CoordsAxis}
    /\ distance_matrix = GridMatrix(pub_coords)
    /\ distance_cache = EmptyCache
    /\ start_point = NoPoint
    /\ end_point = NoPoint
    /\ calls = 0
    /\ IdleCall
    /\ prev = NoPrev
    /\ probe = <<>>
    /\ IdleApp
    /\ IdleService

\* One call: its arguments and what it returned.
ViolatesCall(s, e, r, tn, td) ==
    /\ probe = <<>>
    /\ probe' = [start |-> s, end |-> e, route |-> r, tn |-> tn, td |-> td,
                 out |-> ViolatesForwardProgress(s, e, r, tn, td)]
    /\ UNCHANGED <<session_vars, call_vars, prev, app_vars, service_vars>>

NextFP ==
    probe = <<>> /\ \E ep \in EndpointPairs, r \in ProbeRoutes, t \in Thresholds :
        ViolatesCall(ep[1], ep[2], r, t[1], t[2])

SpecFP == InitFP /\ [][NextFP]_vars

----------------------------------------------------------------------------
(* evaluate_route, select_candidate_pubs and project_onto_line on their own: a
   session whose only step is one call of one of them *)

\* Nine pubs for three tours of three stops each, A = 0 1 2, B = 3 4 5, C = 6 7 8,
\* whose legs are 5 5 5 5, 4 6 4 6 and 2 8 2 8: the same total, another spacing.
CoordsNine == [i \in 0..8 |-> <<10 + 10 * i, i % 2>>]
SpacingMatrix ==
    [i \in 0..8 |-> [j \in 0..8 |->
        IF i = j THEN 0
        ELSE IF <<i, j>> \in {<<0, 1>>, <<1, 2>>} THEN 5
        ELSE IF <<i, j>> = <<3, 4>> THEN 6
        ELSE IF <<i, j>> = <<4, 5>> THEN 4
        ELSE IF <<i, j>> = <<6, 7>> THEN 8
        ELSE IF <<i, j>> = <<7, 8>> THEN 2
        ELSE 7]]
SpacingFromStart == <<5, 9, 9, 4, 9, 9, 2, 9, 9>>
SpacingToEnd == <<9, 9, 5, 9, 9, 6, 9, 9, 8>>
TourA == <<Start, 0, 1, 2, End>>
TourB == <<Start, 3, 4, 5, End>>
TourC == <<Start, 6, 7, 8, End>>

\* The sessions the functions are called on: a registry, its matrix, and the
\* oracle's answers of a call that had every pub as a candidate.
PureSessions ==
    {[coords |-> CoordsAxis, matrix |-> GridMatrix(CoordsAxis),
      from_start |-> <<1, 2, 3, 4>>, to_end |-> <<4, 3, 2, 1>>],
     [coords |-> CoordsNear, matrix |-> OneWayMatrix(CoordsNear),
      from_start |-> <<2, 5, 3, 5>>, to_end |-> <<9, 6, 8, 6>>],
     [coords |-> CoordsFive, matrix |-> ScrambledMatrix(CoordsFive),
      from_start |-> <<5, 2, 8, 5, 4>>, to_end |-> <<5, 8, 2, 5, 6>>],
     [coords |-> CoordsNine, matrix |-> SpacingMatrix,
      from_start |-> SpacingFromStart, to_end |-> SpacingToEnd]}

InitPure ==
    /\ \E ses \in PureSessions :
          /\ pub_coords = ses.coords
          /\ distance_matrix = ses.matrix
          /\ distance_cache =
                CacheWritten(EmptyCache, [i \in 1..Len(ses.from_start) |-> i - 1],
                             ses.from_start, ses.to_end)
    /\ start_point = NoPoint
    /\ end_point = NoPoint
    /\ calls = 0
    /\ IdleCall
    /\ prev = NoPrev
    /\ probe = <<>>
    /\ IdleApp
    /\ IdleService

\* The routes evaluate_route is called on: the three tours on the nine pubs;
\* elsewhere every tour from start to end through one to three distinct pubs, and
\* every pair of pubs (a route of a single leg).
EvalRoutes ==
    IF n_pubs = 9 THEN {TourA, TourB, TourC}
    ELSE {r \in UNION {[1..m -> DOMAIN pub_coords \cup {Start, End}] : m \in 3..5} :
             /\ r[1] = Start
             /\ r[Len(r)] = End
             /\ \A i \in 2..(Len(r) - 1) : IsPub(r[i])
             /\ \A i, j \in 2..(Len(r) - 1) : i # j => r[i] # r[j]}
         \cup [1..2 -> DOMAIN pub_coords]

\* The weights it is called with: 0, 0.35 and 1.0.
EvalWeights == {0, 35, 100}

\* Two calls of evaluate_route with the same weight and their comparison, the way
\* lines 154 and 182 compare scores.
EvaluateCall(a, b, w) ==
    /\ probe = <<>>
    /\ Len(a) = Len(b)
    /\ probe' = [kind |-> "evaluate", a |-> a, b |-> b, w |-> w,
                 score_a |-> EvaluateRoute(a), score_b |-> EvaluateRoute(b),
                 less |-> ScoreLess(EvaluateRoute(a), EvaluateRoute(b), w)]
    /\ UNCHANGED <<session_vars, call_vars, prev, app_vars, service_vars>>

\* The numbers of candidates select_candidate_pubs is asked for, by the size of the
\* registry: none, fewer than there are pubs, as many, more; and -4, the num_pubs * 4
\* of a call for -1 pubs.
Budgets(n) == {-4} \cup 0..(n + 1)

\* A further end point, off the axes.
PointC == <<60, 30>>
PureEndpointPairs ==
    EndpointPairs \cup {<<PointA, PointC>>, <<PointC, PointA>>, <<PointC, PointC>>}

SelectCall(s, e, m) ==
    /\ probe = <<>>
    /\ probe' = [kind |-> "select", start |-> s, end |-> e, m |-> m,
                 out |-> SelectCandidatePubs(s, e, m)]
    /\ UNCHANGED <<session_vars, call_vars, prev, app_vars, service_vars>>

\* The points project_onto_line is called on: a grid around the segments.
PlanePoints ==
    {<<x, y>> : x \in {-20, 0, 20, 40, 50, 60, 100, 120}, y \in {-10, 0, 10, 20, 30}}

\* One call: the value as its numerator out over the denominator den.
ProjectCall(s, e, p) ==
    /\ probe = <<>>
    /\ probe' = [kind |-> "project", start |-> s, end |-> e, point |-> p,
                 out |-> ProjectOntoLine(s, e, p), den |-> ProgressDen(s, e)]
    /\ UNCHANGED <<session_vars, call_vars, prev, app_vars, service_vars>>

NextPure ==
    \/ probe = <<>> /\ \E a, b \in EvalRoutes, w \in EvalWeights : EvaluateCall(a, b, w)
    \/ probe = <<>> /\ \E ep \in PureEndpointPairs, m \in Budgets(n_pubs) :
                          SelectCall(ep[1], ep[2], m)
    \/ probe = <<>> /\ \E ep \in PureEndpointPairs, p \in PlanePoints :
                          ProjectCall(ep[1], ep[2], p)

SpecPure == InitPure /\ [][NextPure]_vars

----------------------------------------------------------------------------
(* POST /api/plan: PubCrawlPlannerApp.plan_crawl around planner.plan_crawl.  The
   session exists (self.planner is not None), and the handler has no await, so a
   request is handled to its end before the next one is taken up. *)

\* Walking directions for one leg, as the direction provider answers.
DirectionAnswers == {[distance |-> 7, duration |-> 5], [distance |-> 12, duration |-> 9]}

\* The provider's answers to the n requests of one annotation: the same answer for
\* every leg, or the two answers in turn.
DirectionAnswerSeqs(n) ==
    {[i \in 1..n |-> a] : a \in DirectionAnswers}
        \cup {[i \in 1..n |-> IF i % 2 = 1 THEN [distance |-> 7, duration |-> 5]
                                           ELSE [distance |-> 12, duration |-> 9]]}

\* Request bodies: counts below, inside and above the schema's 1..100, weights inside
\* and above 0..1 (in hundredths; 20 is the default 0.2).
ApiCounts(n) == IF n > 5 THEN {13} ELSE {0, 1, 2, 4, 5, 101}
ApiWeights == {0, 20, 120}
ApiRequests ==
    {[start_point |-> ep[1], end_point |-> ep[2], num_pubs |-> k,
      uniformity_weight |-> w, include_directions |-> d] :
        ep \in {<<PointA, PointB>>, <<PointB, PointA>>}, k \in ApiCounts(n_pubs),
        w \in ApiWeights, d \in BOOLEAN}

\* PlanCrawlRequest: num_pubs ge=1 le=100, uniformity_weight ge=0 le=1.
ValidRequest(req) ==
    /\ req.num_pubs \in 1..100
    /\ req.uniformity_weight \in 0..100

\* The handler's except clauses: a ValueError is answered 400, any other exception
\* 500.
StatusOf(kind) == IF kind = "ValueError" THEN 400 ELSE 500

\* The body fails validation: the handler is not entered.
RejectRequest(req) ==
    /\ app_pc = "idle"
    /\ pc = "idle"
    /\ ~ValidRequest(req)
    /\ app_pc' = "responded"
    /\ response' = [status |-> 422]
    /\ UNCHANGED <<request, plan, legs, direction_requests>>
    /\ UNCHANGED <<session_vars, call_vars, prev, probe, service_vars>>

\* The handler is entered and calls self.planner.plan_crawl with the body's values.
AcceptRequest(req) ==
    /\ app_pc = "idle"
    /\ ValidRequest(req)
    /\ StartPlan(req.start_point, req.end_point, req.num_pubs, req.uniformity_weight)
    /\ app_pc' = "planning"
    /\ request' = req
    /\ UNCHANGED <<plan, legs, direction_requests, response>>

\* planner.plan_crawl returned: result is bound and legs = None.
PlanReturned ==
    /\ app_pc = "planning"
    /\ pc = "done"
    /\ Return
    /\ plan' = result
    /\ legs' = None
    /\ app_pc' = IF request.include_directions THEN "directions" ELSE "respond"
    /\ UNCHANGED <<request, direction_requests, response>>

\* planner.plan_crawl raised: the outer except clauses answer.
PlanRaised ==
    /\ app_pc = "planning"
    /\ pc = "raised"
    /\ Return
    /\ app_pc' = "responded"
    /\ response' = [status |-> StatusOf(err)]
    /\ UNCHANGED <<request, plan, legs, direction_requests>>

\* The coordinates get_route_legs sends for a route element.
CoordsOf(x) ==
    IF x = Start THEN request.start_point
    ELSE IF x = End THEN request.end_point
    ELSE pub_coords[x]

\* The legs of the route r: one get_directions request per consecutive pair.
NumLegs(r) == IF Len(r) = 0 THEN 0 ELSE Len(r) - 1

\* Mutant: an exception of get_route_legs is not caught by the inner try and reaches
\* the outer except clause.
GetRouteLegsUncaught(answers, fail_at) ==
    /\ app_pc = "directions"
    /\ \E issued \in {IF fail_at = -1 THEN 0
                      ELSE IF fail_at = 0 THEN NumLegs(plan.route) ELSE fail_at} :
          direction_requests' =
              [i \in 1..issued |->
                  [from_coords |-> CoordsOf(plan.route[i]),
                   to_coords |-> CoordsOf(plan.route[i + 1]),
                   ok |-> (i # fail_at)]]
    /\ IF fail_at = 0
       THEN /\ legs' = Some([i \in 1..NumLegs(plan.route) |->
                               [from_index |-> i - 1,
                                to_index |-> i,
                                distance_meters |-> answers[i].distance,
                                duration_seconds |-> answers[i].duration]])
            /\ app_pc' = "respond"
            /\ UNCHANGED response
       ELSE /\ legs' = None
            /\ app_pc' = "responded"
            /\ response' = [status |-> StatusOf("Exception")]
    /\ UNCHANGED <<request, plan>>
    /\ UNCHANGED <<session_vars, call_vars, prev, probe, service_vars>>

\* get_route_legs inside the handler's inner try.  fail_at = -1: osrm_client is
\* None; fail_at = 0: every request is answered; fail_at = i > 0: the i-th request
\* raises.  An exception leaves legs = None and the handler goes on.
GetRouteLegs(answers, fail_at) ==
    /\ app_pc = "directions"
    /\ \E issued \in {IF fail_at = -1 THEN 0
                      ELSE IF fail_at = 0 THEN NumLegs(plan.route) ELSE fail_at} :
          direction_requests' =
              [i \in 1..issued |->
                  [from_coords |-> CoordsOf(plan.route[i]),
                   to_coords |-> CoordsOf(plan.route[i + 1]),
                   ok |-> (i # fail_at)]]
    /\ legs' = IF fail_at = 0
               THEN Some([i \in 1..NumLegs(plan.route) |->
                            [from_index |-> i - 1,
                             to_index |-> i,
                             distance_meters |-> answers[i].distance,
                             duration_seconds |-> answers[i].duration]])
               ELSE None
    /\ app_pc' = "respond"
    /\ UNCHANGED <<request, plan, response>>
    /\ UNCHANGED <<session_vars, call_vars, prev, probe, service_vars>>

\* pubs_in_route: one entry per pub of the route, with its position in the route.
PubsInRoute(r) ==
    [j \in 1..Len(PubSequence(r)) |->
        [index |-> (CHOOSE i \in 1..Len(r) : r[i] = PubSequence(r)[j]) - 1,
         pub |-> PubSequence(r)[j]]]

\* The PlanCrawlResponse is built from result and legs and returned.
Respond ==
    /\ app_pc = "respond"
    /\ response' = [status |-> 200,
                    route_indices |-> plan.route,
                    pubs |-> PubsInRoute(plan.route),
                    total_distance_meters |-> plan.total_distance,
                    estimated_time_minutes |-> plan.estimated_time_minutes,
                    num_pubs |-> plan.num_pubs,
                    legs |-> legs,
                    share_id |-> None]
    /\ app_pc' = "responded"
    /\ UNCHANGED <<request, plan, legs, direction_requests>>
    /\ UNCHANGED <<session_vars, call_vars, prev, probe, service_vars>>

\* The caller has the response: the handler's locals are gone.
Finish ==
    /\ app_pc = "responded"
    /\ app_pc' = "idle"
    /\ request' = <<>>
    /\ plan' = <<>>
    /\ legs' = None
    /\ direction_requests' = <<>>
    /\ response' = <<>>
    /\ UNCHANGED <<session_vars, call_vars, prev, probe, service_vars>>

ApiRegistries ==
    {[coords |-> CoordsAxis, matrix |-> ScrambledMatrix(CoordsAxis)],
     [coords |-> CoordsMany, matrix |-> ScrambledMatrix(CoordsMany)]}

InitApi ==
    /\ \E reg \in ApiRegistries :
          /\ pub_coords = reg.coords
          /\ distance_matrix = reg.matrix
    /\ distance_cache = EmptyCache
    /\ start_point = NoPoint
    /\ end_point = NoPoint
    /\ calls = 0
    /\ IdleCall
    /\ prev = NoPrev
    /\ probe = <<>>
    /\ IdleApp
    /\ IdleService

NextApi ==
    \/ app_pc = "idle" /\ pc = "idle" /\ \E req \in ApiRequests : RejectRequest(req)
    \/ app_pc = "idle" /\ pc = "idle" /\ \E req \in ApiRequests : AcceptRequest(req)
    \/ pc = "fetch_start" /\ \E answer \in OracleAnswers(Len(candidates)) : FetchStart(answer)
    \/ FetchStartFails
    \/ pc = "fetch_end" /\ \E answer \in OracleAnswers(Len(candidates)) : FetchEnd(answer)
    \/ FetchEndFails
    \/ OptimizeRoute
    \/ pc = "sample" /\ \E sel \in Samples(candidates, num_pubs) : SampleDraw(sel)
    \/ SampleRaises
    \/ TwoOptScan
    \/ SampleRejected
    \/ SampleScored
    \/ SampleFinish
    \/ GreedyStep
    \/ GreedyRefine
    \/ BuildResult
    \/ PlanReturned
    \/ PlanRaised
    \/ app_pc = "directions" /\
          \E answers \in DirectionAnswerSeqs(NumLegs(plan.route)),
             fail_at \in (-1)..NumLegs(plan.route) : GetRouteLegs(answers, fail_at)
    \/ Respond
    \/ Finish

SpecApi == InitApi /\ [][NextApi]_vars

----------------------------------------------------------------------------

(* The precomputation: POST /api/precompute and GET /api/status *)

\* The numbers of pubs load_pubs_data may have loaded at startup.
PubsDataSizes == 0..2

\* What a run of precompute_distance_matrix followed by load_distance_data can
\* come to: the routing service fails and nothing is written; the matrix is
\* written and loaded; the matrix is written and the load fails.
PrecomputeOutcomes == {"raises", "loaded", "not_loaded"}

\* The calls whose precomputation is executing.
Computing == {c \in Callers : trigger_pc[c] = "computing"}

\* Lines 453-463: the two early exits of the handler, taken before the try.
TriggerEnter(c) ==
    /\ trigger_pc[c] = "idle"
    /\ IF precompute_in_progress
       THEN /\ trigger_response' = [trigger_response EXCEPT ![c] = Some(409)]
            /\ trigger_pc' = [trigger_pc EXCEPT ![c] = "done"]
       ELSE IF pubs_data = 0
       THEN /\ trigger_response' = [trigger_response EXCEPT ![c] = Some(400)]
            /\ trigger_pc' = [trigger_pc EXCEPT ![c] = "done"]
       ELSE /\ trigger_response' = trigger_response
            /\ trigger_pc' = [trigger_pc EXCEPT ![c] = "entered"]
    /\ UNCHANGED <<precompute_in_progress, pubs_data, distances_file, app_planner, status>>
    /\ UNCHANGED <<session_vars, call_vars, prev, probe, app_vars, share_vars>>

\* Line 466: the flag is set and the precomputation begins.
TriggerSetFlag(c) ==
    /\ trigger_pc[c] = "entered"
    /\ precompute_in_progress' = TRUE
    /\ trigger_pc' = [trigger_pc EXCEPT ![c] = "computing"]
    /\ UNCHANGED <<pubs_data, distances_file, app_planner, trigger_response, status>>
    /\ UNCHANGED <<session_vars, call_vars, prev, probe, app_vars, share_vars>>

\* Mutant: the flag is reset on the successful path only (no finally).
TriggerFinishNoFinally(c, outcome) ==
    /\ trigger_pc[c] = "computing"
    /\ distances_file' = IF outcome = "raises" THEN distances_file ELSE Some(pubs_data)
    /\ app_planner' = IF outcome = "loaded" THEN Some(pubs_data) ELSE app_planner
    /\ trigger_response' = [trigger_response EXCEPT
                               ![c] = IF outcome = "loaded" THEN Some(200) ELSE Some(500)]
    /\ precompute_in_progress' = IF outcome = "loaded" THEN FALSE ELSE precompute_in_progress
    /\ trigger_pc' = [trigger_pc EXCEPT ![c] = "done"]
    /\ UNCHANGED <<pubs_data, status>>
    /\ UNCHANGED <<session_vars, call_vars, prev, probe, app_vars, share_vars>>

\* Lines 468-490: precompute_distance_matrix runs, the planner is reloaded, the
\* handler returns or raises 500, and the finally clause resets the flag.
TriggerFinish(c, outcome) ==
    /\ trigger_pc[c] = "computing"
    /\ distances_file' = IF outcome = "raises" THEN distances_file ELSE Some(pubs_data)
    /\ app_planner' = IF outcome = "loaded" THEN Some(pubs_data) ELSE app_planner
    /\ trigger_response' = [trigger_response EXCEPT
                               ![c] = IF outcome = "loaded" THEN Some(200) ELSE Some(500)]
    /\ precompute_in_progress' = FALSE
    /\ trigger_pc' = [trigger_pc EXCEPT ![c] = "done"]
    /\ UNCHANGED <<pubs_data, status>>
    /\ UNCHANGED <<session_vars, call_vars, prev, probe, app_vars, share_vars>>

\* The caller has the answer.
TriggerReturn(c) ==
    /\ trigger_pc[c] = "done"
    /\ trigger_pc' = [trigger_pc EXCEPT ![c] = "idle"]
    /\ trigger_response' = [trigger_response EXCEPT ![c] = None]
    /\ UNCHANGED <<precompute_in_progress, pubs_data, distances_file, app_planner, status>>
    /\ UNCHANGED <<session_vars, call_vars, prev, probe, app_vars, share_vars>>

\* GET /api/status reports the flag, the number of pubs and whether a matrix
\* file exists.
GetStatus ==
    /\ status' = [is_computing |-> precompute_in_progress,
                  estimated_pubs |-> pubs_data,
                  last_computed |-> distances_file.present]
    /\ UNCHANGED <<precompute_in_progress, pubs_data, distances_file, app_planner,
                   trigger_pc, trigger_response>>
    /\ UNCHANGED <<session_vars, call_vars, prev, probe, app_vars, share_vars>>

\* The planner and the handler of POST /api/plan take no part: no call is made.
PlannerAtRest ==
    /\ pub_coords = CoordsAxis
    /\ distance_matrix = GridMatrix(CoordsAxis)
    /\ distance_cache = EmptyCache
    /\ start_point = NoPoint
    /\ end_point = NoPoint
    /\ calls = 0
    /\ IdleCall
    /\ prev = NoPrev
    /\ probe = <<>>
    /\ IdleApp

\* Startup (_lifespan): the pubs are loaded from data.json, and the planner from
\* the matrix file when there is one and it loads.
InitPrecompute ==
    /\ PlannerAtRest
    /\ precompute_in_progress = FALSE
    /\ pubs_data \in PubsDataSizes
    /\ distances_file \in {None} \cup {Some(n) : n \in PubsDataSizes}
    /\ app_planner \in {None, distances_file}
    /\ trigger_pc = [c \in Callers |-> "idle"]
    /\ trigger_response = [c \in Callers |-> None]
    /\ status = <<>>
    /\ shared_routes = {}
    /\ utcnow = 0
    /\ share_responses = <<>>

\* The handler has no await: under one event loop its steps follow one another
\* with no other handler in between.  The steps are kept apart so that calls
\* made from a second loop or thread are covered too.
NextPrecompute ==
    \/ \E c \in Callers : TriggerEnter(c)
    \/ \E c \in Callers : TriggerSetFlag(c)
    \/ \E c \in Callers, outcome \in PrecomputeOutcomes : TriggerFinish(c, outcome)
    \/ \E c \in Callers : TriggerReturn(c)
    \/ GetStatus

SpecPrecompute == InitPrecompute /\ [][NextPrecompute]_vars

----------------------------------------------------------------------------

(* The shared routes: /api/routes and the hourly cleanup *)

\* The ids a request may name.
ShareIds == {"r1", "r2"}

\* ttl_days of SharedRoute.__init__: expires_at = created_at + 30 days.
TtlDays == 30

\* The clock runs from startup (day 0) to this day.
MaxNow == 3

\* The requests to /api/routes that are followed.
MaxShareRequests == 3

\* The rows the database may hold at startup: each was created by
\* SharedRoute.__init__ on one of the days -30..-28, so it expires on day 0, 1 or 2.
StoredRows ==
    {[share_id |-> id, expires_at |-> created_at + TtlDays, last_accessed_at |-> created_at] :
        id \in ShareIds, created_at \in (0 - TtlDays)..(2 - TtlDays)}

\* share_id is the primary key: a table holds at most one row per id.
StoredTables == {t \in SUBSET StoredRows : \A r1, r2 \in t : r1.share_id = r2.share_id => r1 = r2}

\* db.query(SharedRoute).filter(SharedRoute.share_id == share_id).first()
RowsOf(share_id) == {r \in shared_routes : r.share_id = share_id}

\* SharedRoute.is_expired: datetime.utcnow() > self.expires_at
IsExpired(r) == utcnow > r.expires_at

Answer(op, share_id, code) == [op |-> op, share_id |-> share_id, status |-> code]

\* POST /api/routes.  The handler calls SharedRoute(..., legs_data=legs_data), and
\* SharedRoute.__init__ has no parameter legs_data: the call raises TypeError before
\* db.add, nothing is stored and the handler answers 500 (lines 620-621).
CreateSharedRoute ==
    /\ Len(share_responses) < MaxShareRequests
    /\ share_responses' = Append(share_responses, Answer("create", "", 500))
    /\ UNCHANGED <<shared_routes, utcnow>>
    /\ UNCHANGED <<session_vars, call_vars, prev, probe, app_vars, precompute_vars>>

\* Mutant: an expired row is answered with 410 and left in the table.
GetSharedRouteKeepsExpired(share_id) ==
    /\ Len(share_responses) < MaxShareRequests
    /\ IF RowsOf(share_id) = {}
       THEN /\ share_responses' = Append(share_responses, Answer("get", share_id, 404))
            /\ shared_routes' = shared_routes
       ELSE \E row \in RowsOf(share_id) :
               IF IsExpired(row)
               THEN /\ shared_routes' = shared_routes
                    /\ share_responses' = Append(share_responses, Answer("get", share_id, 410))
               ELSE /\ shared_routes' = (shared_routes \ {row}) \cup
                                            {[row EXCEPT !.last_accessed_at = utcnow]}
                    /\ share_responses' = Append(share_responses, Answer("get", share_id, 500))
    /\ UNCHANGED utcnow
    /\ UNCHANGED <<session_vars, call_vars, prev, probe, app_vars, precompute_vars>>

\* GET /api/routes/{share_id}.  No row: 404.  An expired row is deleted and the
\* answer is 410.  Otherwise last_accessed_at is committed; building the response
\* then calls route.get_legs_data(), which SharedRoute does not define, and the
\* AttributeError is answered with 500 (lines 705-706).
GetSharedRoute(share_id) ==
    /\ Len(share_responses) < MaxShareRequests
    /\ IF RowsOf(share_id) = {}
       THEN /\ share_responses' = Append(share_responses, Answer("get", share_id, 404))
            /\ shared_routes' = shared_routes
       ELSE \E row \in RowsOf(share_id) :
               IF IsExpired(row)
               THEN /\ shared_routes' = shared_routes \ {row}
                    /\ share_responses' = Append(share_responses, Answer("get", share_id, 410))
               ELSE /\ shared_routes' = (shared_routes \ {row}) \cup
                                            {[row EXCEPT !.last_accessed_at = utcnow]}
                    /\ share_responses' = Append(share_responses, Answer("get", share_id, 500))
    /\ UNCHANGED utcnow
    /\ UNCHANGED <<session_vars, call_vars, prev, probe, app_vars, precompute_vars>>

\* DELETE /api/routes/{share_id}: 404 without a row, else the row is deleted.
DeleteSharedRoute(share_id) ==
    /\ Len(share_responses) < MaxShareRequests
    /\ IF RowsOf(share_id) = {}
       THEN /\ share_responses' = Append(share_responses, Answer("delete", share_id, 404))
            /\ shared_routes' = shared_routes
       ELSE /\ shared_routes' = shared_routes \ RowsOf(share_id)
            /\ share_responses' = Append(share_responses, Answer("delete", share_id, 200))
    /\ UNCHANGED utcnow
    /\ UNCHANGED <<session_vars, call_vars, prev, probe, app_vars, precompute_vars>>

\* One pass of _cleanup_expired_routes: the rows with expires_at < utcnow go.
CleanupExpiredRoutes ==
    /\ \E r \in shared_routes : r.expires_at < utcnow
    /\ shared_routes' = {r \in shared_routes : ~(r.expires_at < utcnow)}
    /\ UNCHANGED <<utcnow, share_responses>>
    /\ UNCHANGED <<session_vars, call_vars, prev, probe, app_vars, precompute_vars>>

\* A day passes.
Tick ==
    /\ utcnow < MaxNow
    /\ utcnow' = utcnow + 1
    /\ UNCHANGED <<shared_routes, share_responses>>
    /\ UNCHANGED <<session_vars, call_vars, prev, probe, app_vars, precompute_vars>>

\* Startup: create_all keeps the rows the database file already holds.
InitShare ==
    /\ PlannerAtRest
    /\ precompute_in_progress = FALSE
    /\ pubs_data = 0
    /\ distances_file = None
    /\ app_planner = None
    /\ trigger_pc = [c \in Callers |-> "idle"]
    /\ trigger_response = [c \in Callers |-> None]
    /\ status = <<>>
    /\ shared_routes \in StoredTables
    /\ utcnow = 0
    /\ share_responses = <<>>

NextShare ==
    \/ CreateSharedRoute
    \/ \E share_id \in ShareIds : GetSharedRoute(share_id)
    \/ \E share_id \in ShareIds : DeleteSharedRoute(share_id)
    \/ CleanupExpiredRoutes
    \/ Tick

SpecShare == InitShare /\ [][NextShare]_vars

----------------------------------------------------------------------------
(* The claims *)

\* The route holds Start, then exactly k pairwise distinct pubs of the registry, then
\* End.
WellFormed(r, k) ==
    /\ Len(r) = k + 2
    /\ r[1] = Start
    /\ r[Len(r)] = End
    /\ \A i \in 2..(Len(r) - 1) : r[i] \in DOMAIN pub_coords
    /\ \A i, j \in 2..(Len(r) - 1) : i # j => r[i] # r[j]

\* C1 as stated: for count >= 1, the route plan_crawl returns begins with the start
\* marker, ends with the end marker, and holds between them exactly
\* min(count, number of registry points) pairwise distinct pub indices.
C1_RouteShape ==
    pc = "done" /\ num_pubs >= 1 => WellFormed(result.route, Min(num_pubs, n_pubs))

\* C1 amended: for count >= 1, the route plan_crawl returns is either empty (sampling
\* regime, every sample rejected by the forward-progress filter), or begins with the
\* start marker, ends with the end marker and holds between them exactly
\* min(count, number of registry points) = count pairwise distinct pub indices.
C1_RouteShapeOrEmpty ==
    pc = "done" /\ num_pubs >= 1 =>
        \/ /\ result.route = <<>>
           /\ num_pubs <= SamplingLimit
           /\ rejected = MaxSamples
        \/ /\ WellFormed(result.route, Min(num_pubs, n_pubs))
           /\ Len(result.route) = num_pubs + 2

\* A call for three pubs returned a five-element route after a sample was rejected.
C1_Witness ==
    /\ pc = "done"
    /\ num_pubs = 3
    /\ rejected > 0
    /\ Len(result.route) = 5

\* Whether the pubs of r come in strictly increasing progress.
IncreasingProgress(s, e, r) ==
    LET ps == PubSequence(r)
    IN  \A i \in 1..(Len(ps) - 1) : Progress(s, e, ps[i]) < Progress(s, e, ps[i + 1])

\* C2: in the sampling regime (count <= 12) every non-empty route plan_crawl returns
\* satisfies the forward-progress constraint at threshold 0.05 (1/20); and with the
\* registry at progress 0.1, 0.9, 0.3, 0.7 and count 2 the two pubs returned are in
\* increasing progress, never the 0.9-pub followed by the 0.1-pub.
C2_ForwardProgress ==
    pc = "done" /\ num_pubs <= SamplingLimit /\ result.route # <<>> =>
        /\ ~ViolatesForwardProgress(start_point, end_point, result.route, 1, 20)
        /\ (pub_coords = CoordsAxis /\ num_pubs = 2 /\ start_point # end_point) =>
               /\ IncreasingProgress(start_point, end_point, result.route)
               /\ LET ps == PubSequence(result.route)
                  IN  ~(/\ 10 * Progress(start_point, end_point, ps[1])
                              = 9 * ProgressDen(start_point, end_point)
                        /\ 10 * Progress(start_point, end_point, ps[2])
                              = ProgressDen(start_point, end_point))

\* The scenario of C2 returned a route after the filter had dropped a sample.
C2_Witness ==
    /\ pc = "done"
    /\ pub_coords = CoordsAxis
    /\ start_point # end_point
    /\ num_pubs = 2
    /\ rejected > 0
    /\ Len(result.route) = 4

\* C3: in the sampling regime (count <= 12), when the loop is over and every sample
\* drawn was rejected by the forward-progress filter, plan_crawl goes on to return
\* without an error, and the route it returns holds no pub (it is empty).
C3_EmptyWhenNoneFeasible ==
    [][(pc = "result" /\ num_pubs <= SamplingLimit /\ rejected = samples) =>
          /\ pc' = "done"
          /\ err' = ""
          /\ PubSequence(result'.route) = <<>>
          /\ result'.route = <<>>]_vars

\* A call in the sampling regime returned after each of its samples was rejected.
C3_Witness ==
    /\ pc = "done"
    /\ num_pubs <= SamplingLimit
    /\ rejected = MaxSamples
    /\ samples = MaxSamples
    /\ result.route = <<>>
    /\ err = ""

\* C4: a request whose count is non-positive or exceeds the number of registry
\* points is rejected before any search step (a sample construction, a greedy pick)
\* begins, and never returns a route.
C4_RejectedBeforeSearch ==
    (pc # "idle" /\ (num_pubs <= 0 \/ num_pubs > n_pubs)) =>
        /\ steps = 0
        /\ pc # "done"

\* The route greedy_with_improvement hands to the refiner: 'start', the pubs in the
\* order they were picked, 'end' (lines 258-261).
GreedyGiven == Append(greedy_route, End)

\* C5: the route the 2-opt refiner returns has an objective value (the weighted score
\* when w > 0, the total distance when w = 0) no greater than that of the route it
\* was given.  Stated where the refiner is handed a route, in the greedy regime: the
\* route given does not score strictly below the route returned.
C5_NonWorsening ==
    (pc = "result" /\ num_pubs > SamplingLimit) =>
        ~Improves(GreedyGiven, best_route, uniformity_weight)

\* The regression from the i-th pub of ps to the next exceeds tn / td: in exact
\* terms, td * (progress[i] - progress[i+1]) > tn * ProgressDen.
RegressesBeyond(s, e, ps, i, tn, td) ==
    td * (Progress(s, e, ps[i]) - Progress(s, e, ps[i + 1])) > tn * ProgressDen(s, e)

\* C6: violates_forward_progress_constraint(route, t) is true exactly when some
\* pair of consecutive pubs of the route (markers ignored) has progress decreasing
\* by strictly more than t; a regression equal to t is no violation; the progress
\* sequence 0.1, 0.4, 0.2 at t = 0.05 is flagged and 0.1, 0.4, 0.38 is not; a route
\* with fewer than two pubs never violates.
C6_ViolatesExactly ==
    probe # <<>> =>
        LET ps == PubSequence(probe.route)
            onAxis == pub_coords = CoordsNear /\ probe.start = PointA /\ probe.end = PointB
        IN  /\ probe.out = (\E i \in 1..(Len(ps) - 1) :
                   RegressesBeyond(probe.start, probe.end, ps, i, probe.tn, probe.td))
            /\ Len(ps) < 2 => ~probe.out
            /\ (onAxis /\ ps = <<0, 1, 2>> /\ probe.tn = 1 /\ probe.td = 20) => probe.out
            /\ (onAxis /\ ps = <<0, 1, 3>> /\ probe.tn = 1 /\ probe.td = 20) => ~probe.out
            /\ (onAxis /\ ps = <<0, 1, 3>> /\ probe.tn = 1 /\ probe.td = 50) => ~probe.out

\* The function flagged the route start, 0.1, 0.4, 0.2, end at threshold 0.05.
C6_Witness ==
    /\ probe # <<>>
    /\ pub_coords = CoordsNear
    /\ probe.start = PointA
    /\ probe.end = PointB
    /\ probe.route = <<Start, 0, 1, 2>>
    /\ probe.tn = 1
    /\ probe.td = 20
    /\ probe.out

\* C7: a plan_crawl call repeated on the same session with the same arguments, the
\* same oracle answers and the same random draws ends as the first call did: it
\* returns the same route (and total distance), or raises the same error.
C7_Idempotent ==
    (prev.set /\ pc \in {"done", "raised"}) =>
        /\ err = prev.err
        /\ result = prev.result

\* A repeated call in the sampling regime returned the route of the first call.
C7_Witness ==
    /\ prev.set
    /\ pc = "done"
    /\ num_pubs = 3
    /\ Len(draws) = MaxSamples
    /\ Len(result.route) = 5
    /\ result.route = prev.result.route

\* Where a call stands once the optimization has begun.
SearchPhases == {"sample", "two_opt", "filter", "greedy", "result", "done"}

\* The cache keys of a candidate list: (start, pub) and (pub, end) for each.
CandidateKeys(cands) ==
    {<<Start, cands[i]>> : i \in 1..Len(cands)} \cup {<<cands[i], End>> : i \in 1..Len(cands)}

\* C8: a plan_crawl call issues two batched oracle requests, start -> candidates and
\* candidates -> end, each over the whole candidate list; both are complete before
\* the first sample is drawn or the first greedy pick made, and none is issued while
\* the optimization runs (a call never issues a third; a call whose request fails
\* raises before any search step).
C8_TwoRequestsBeforeSearch ==
    /\ requests <= 2
    /\ (pc \in SearchPhases \/ pc = "optimize" \/ steps > 0) =>
          /\ requests = 2
          /\ Len(start_distances) = Len(candidates)
          /\ Len(end_distances) = Len(candidates)
          /\ \A i \in 1..Len(candidates) :
                /\ GetDistance(Start, candidates[i]) = start_distances[i]
                /\ GetDistance(candidates[i], End) = end_distances[i]

\* A second sample is being refined, two requests after the call began.
C8_Witness ==
    /\ pc = "two_opt"
    /\ steps = 2
    /\ requests = 2
    /\ Len(candidates) >= 4

Elements == {Start, End} \cup DOMAIN pub_coords

\* C10: get_distance raises for (start, end), for every pair of two markers, for
\* (pub, start) and (end, pub), and for every (start, pub) or (pub, end) that is not in
\* the cache; it returns a value only for a pair of pubs (the matrix entry) and for a
\* cached endpoint pair (the cache entry).
C10_GetDistanceFails ==
    \A a, b \in Elements :
        /\ (IsPub(a) /\ IsPub(b)) => GetDistance(a, b) = distance_matrix[a][b]
        /\ (~IsPub(a) /\ ~IsPub(b)) => GetDistance(a, b) = FAIL
        /\ (IsPub(a) /\ b = Start) => GetDistance(a, b) = FAIL
        /\ (a = End /\ IsPub(b)) => GetDistance(a, b) = FAIL
        /\ (a = Start /\ IsPub(b)) =>
              GetDistance(a, b) = IF <<a, b>> \in DOMAIN distance_cache
                                  THEN distance_cache[<<a, b>>] ELSE FAIL
        /\ (IsPub(a) /\ b = End) =>
              GetDistance(a, b) = IF <<a, b>> \in DOMAIN distance_cache
                                  THEN distance_cache[<<a, b>>] ELSE FAIL
        /\ GetDistance(a, b) # FAIL =>
              (IsPub(a) /\ IsPub(b)) \/ <<a, b>> \in CandidateKeys(Registry)

\* The cache holds the start distance of one pub and not of another.
C10_Witness ==
    /\ pc = "optimize"
    /\ \E p, q \in DOMAIN pub_coords :
          /\ GetDistance(Start, p) # FAIL
          /\ GetDistance(Start, q) = FAIL
          /\ GetDistance(q, End) = FAIL

\* Where a call stands once optimize_route has dispatched.
Dispatched == {"sample", "two_opt", "filter", "greedy", "result", "done"}

\* C12: the planner uses the sampling regime exactly when the requested count is at
\* most 12 and the greedy regime exactly when it is above 12: once optimize_route
\* has dispatched, a call for at most 12 pubs has begun no greedy construction, a
\* call for 13 or more has begun one and has drawn, rejected and scored no sample;
\* a call is only ever in the sampling loop with a count of at most 12, and in
\* the greedy loop with a count of at least 13.
C12_DispatchAtTwelve ==
    /\ pc \in Dispatched =>
          /\ num_pubs <= 12 => (greedy_route = <<>> /\ remaining = {})
          /\ num_pubs >= 13 =>
                (greedy_route # <<>> /\ samples = 0 /\ rejected = 0 /\ ~best_set)
    /\ pc \in {"sample", "filter"} => num_pubs <= 12
    /\ pc = "greedy" => num_pubs >= 13
    /\ samples > 0 => num_pubs <= 12

\* A call for 12 pubs returned a route of 12 pubs, its samples scored.
C12_Witness ==
    /\ pc = "done"
    /\ num_pubs = 12
    /\ samples = MaxSamples
    /\ best_set
    /\ Len(result.route) = 14
    /\ greedy_route = <<>>

\* The sum of get_distance over the consecutive pairs of r, from the i-th on.
RECURSIVE LegsFrom(_, _)
LegsFrom(r, i) ==
    IF i >= Len(r) THEN 0 ELSE GetDistance(r[i], r[i + 1]) + LegsFrom(r, i + 1)

\* C14: in every result of plan_crawl, total_distance is the sum of the
\* get_distance values over the consecutive pairs of the returned route (each of
\* which resolves), estimated_time_minutes is total_distance / 80, and the reported
\* count is the requested count.
C14_ResultTotals ==
    pc = "done" =>
        /\ \A i \in 1..(Len(result.route) - 1) :
              GetDistance(result.route[i], result.route[i + 1]) # FAIL
        /\ result.total_distance = LegsFrom(result.route, 1)
        /\ result.estimated_time_minutes.num * 80
              = result.total_distance * result.estimated_time_minutes.den
        /\ result.estimated_time_minutes.den > 0
        /\ result.num_pubs = num_pubs

\* A call returned a route of three pubs with a positive distance and time.
C14_Witness ==
    /\ pc = "done"
    /\ Len(result.route) = 5
    /\ result.total_distance > 0
    /\ result.estimated_time_minutes.num > 0
    /\ result.num_pubs = 3

\* The largest r in lo..hi with r * r <= x.
RECURSIVE IsqrtIn(_, _, _)
IsqrtIn(x, lo, hi) ==
    IF lo = hi THEN lo
    ELSE LET mid == (lo + hi + 1) \div 2
         IN  IF mid * mid <= x THEN IsqrtIn(x, mid, hi) ELSE IsqrtIn(x, lo, mid - 1)

\* The integer part of the square root of x, for x < 2^30.
Isqrt(x) == IsqrtIn(x, 0, Min(x, 32767))

\* The sum of (n * d - total)^2 over the legs d of r from the i-th on: n^3 times the
\* population variance of the legs when n is their number and total their sum.
RECURSIVE DevSqFrom(_, _, _, _)
DevSqFrom(r, i, n, total) ==
    IF i >= Len(r) THEN 0
    ELSE LET d == n * GetDistance(r[i], r[i + 1]) - total
         IN  d * d + DevSqFrom(r, i + 1, n, total)

\* n times the score of a route of n legs lies in [ScoreFloor, ScoreFloor + 1): the
\* score is total + w * 100 * deviation = total + c * sqrt(q) / n for the weight c in
\* hundredths and the deviation sqrt(q) / n.
ScoreFloor(n, total, q, c) == n * total + Isqrt(c * c * q)

\* C13: evaluate_route(route, w) is the total of the leg distances over all
\* consecutive pairs of the route (the legs from start and to end included) plus w
\* times the population standard deviation of the legs times 100, the deviation
\* being 0 for a route of a single leg.  So the comparison of two scores agrees
\* with the comparison of these sums; among routes of equal total distance at
\* w = 1.0 the route of smaller variance has the strictly lower score (of the
\* tours with legs 5 5 5 5, 4 6 4 6 and 2 8 2 8 the first scores lowest and the
\* last highest); and at w = 0 the score is the total distance.
C13_ScoreIsTotalPlusSpread ==
    (probe # <<>> /\ probe.kind = "evaluate") =>
        LET n == Len(probe.a) - 1
            c == probe.w
            ta == LegsFrom(probe.a, 1)
            tb == LegsFrom(probe.b, 1)
            qa == probe.score_a.q
            qb == probe.score_b.q
            fa == ScoreFloor(n, ta, qa, c)
            fb == ScoreFloor(n, tb, qb, c)
        IN  /\ probe.score_a.n = n /\ probe.score_b.n = n
            /\ probe.score_a.total = ta /\ probe.score_b.total = tb
            /\ n > 1 => (qa * n = DevSqFrom(probe.a, 1, n, ta)
                         /\ qb * n = DevSqFrom(probe.b, 1, n, tb))
            /\ n <= 1 => (qa = 0 /\ qb = 0)
            /\ fa + 1 <= fb => probe.less
            /\ fa >= fb + 1 => ~probe.less
            /\ (c = 100 /\ ta = tb) => (probe.less <=> qa < qb)
            /\ c = 0 => (probe.less <=> ta < tb)
            /\ (c = 100 /\ probe.a = TourA /\ probe.b \in {TourB, TourC}) =>
                  (ta = 20 /\ tb = 20 /\ probe.less)
            /\ (c = 100 /\ probe.a = TourB /\ probe.b = TourC) => probe.less
            /\ (c = 100 /\ probe.a \in {TourB, TourC} /\ probe.b = TourA) => ~probe.less

\* The evenly spaced tour was scored against the least evenly spaced one at w = 1.0.
C13_Witness ==
    /\ probe # <<>>
    /\ probe.kind = "evaluate"
    /\ probe.a = TourA
    /\ probe.b = TourC
    /\ probe.w = 100
    /\ probe.score_a.total = probe.score_b.total
    /\ probe.score_a.q < probe.score_b.q
    /\ probe.less

\* Whether p comes before q in the order of corridor distance, ties by registry
\* order.
CloserToCorridor(s, e, p, q) ==
    LET dp == PerpendicularDistance(s, e, pub_coords[p])
        dq == PerpendicularDistance(s, e, pub_coords[q])
    IN  dp < dq \/ (dp = dq /\ p < q)

\* C15: for a number of candidates m >= 0, select_candidate_pubs(start, end, m)
\* returns min(m, registry size) distinct pub indices: the pubs with the smallest
\* corridor distance, ties in corridor distance broken by registry order, and the
\* returned sequence is in non-decreasing progress.
C15_ClosestInProgressOrder ==
    (probe # <<>> /\ probe.kind = "select" /\ probe.m >= 0) =>
        LET out == probe.out
            chosen == SeqToSet(out)
        IN  /\ Len(out) = Min(probe.m, n_pubs)
            /\ chosen \subseteq DOMAIN pub_coords
            /\ Cardinality(chosen) = Len(out)
            /\ \A p \in chosen, q \in (DOMAIN pub_coords) \ chosen :
                  CloserToCorridor(probe.start, probe.end, p, q)
            /\ \A i \in 1..(Len(out) - 1) :
                  Progress(probe.start, probe.end, out[i])
                      <= Progress(probe.start, probe.end, out[i + 1])

\* Two of four pubs at the same corridor distance were selected, and came back in
\* another order than the registry's.
C15_Witness ==
    /\ probe # <<>>
    /\ probe.kind = "select"
    /\ probe.m = 2
    /\ pub_coords = CoordsAxis
    /\ probe.start = PointB
    /\ probe.end = PointA
    /\ probe.out = <<1, 0>>

\* C16: project_onto_line(start, end, point) returns a value for every point, and
\* the value lies in [0, 1]; when start = end it is 0 for every point.
C16_ProgressInUnitInterval ==
    (probe # <<>> /\ probe.kind = "project") =>
        /\ probe.den > 0
        /\ 0 <= probe.out
        /\ probe.out <= probe.den
        /\ probe.start = probe.end => probe.out = 0

\* The function was called on a point beyond the end, and returned 1.
C16_Witness ==
    /\ probe # <<>>
    /\ probe.kind = "project"
    /\ probe.start = PointA
    /\ probe.end = PointB
    /\ probe.point = <<120, 10>>
    /\ probe.out = probe.den

\* Whether p lies on the straight segment from s to e.
OnSegment(s, e, p) ==
    /\ (e[1] - s[1]) * (p[2] - s[2]) = (e[2] - s[2]) * (p[1] - s[1])
    /\ Min(s[1], e[1]) <= p[1] /\ p[1] <= Max(s[1], e[1])
    /\ Min(s[2], e[2]) <= p[2] /\ p[2] <= Max(s[2], e[2])

\* C17: progress does not decrease as the point moves along the straight line from
\* start to end: for points p1, p2 on the segment with p2 at least as far from start
\* as p1, progress(p1) <= progress(p2).
C17_ProgressMonotone ==
    (probe # <<>> /\ probe.kind = "project" /\ OnSegment(probe.start, probe.end, probe.point)) =>
        \A p2 \in PlanePoints :
            (/\ OnSegment(probe.start, probe.end, p2)
             /\ LineLengthSq(probe.start, p2) >= LineLengthSq(probe.start, probe.point))
                => probe.out <= ProjectOntoLine(probe.start, probe.end, p2)

\* The function was called on a point inside a segment off the axes, with a point
\* of the grid further along the same segment.
C17_Witness ==
    /\ probe # <<>>
    /\ probe.kind = "project"
    /\ probe.start = PointC
    /\ probe.end = PointA
    /\ probe.point = <<40, 20>>
    /\ 0 < probe.out
    /\ probe.out < probe.den
    /\ \E p2 \in PlanePoints :
          /\ p2 # probe.point
          /\ OnSegment(probe.start, probe.end, p2)
          /\ LineLengthSq(probe.start, p2) > LineLengthSq(probe.start, probe.point)
          /\ probe.out < ProjectOntoLine(probe.start, probe.end, p2)

\* Whether the step is an accepted reversal: the refiner goes round with another
\* route.
Accepted == pc = "two_opt" /\ pc' = "two_opt" /\ route' # route

\* C19: the local search refiner terminates: each accepted reversal strictly
\* decreases the objective (the weighted score when w > 0, the total distance
\* otherwise), and a refinement that has begun comes to its end, a full scan without
\* acceptance (or an error).
C19_RefinerTerminates ==
    /\ [][Accepted =>
            /\ Improves(route', route, uniformity_weight)
            /\ ~Improves(route, route', uniformity_weight)
            /\ uniformity_weight = 0 => LegsFrom(route', 1) < LegsFrom(route, 1)
            /\ uniformity_weight > 0 =>
                  ScoreFloor(Len(route) - 1, LegsFrom(route', 1),
                             EvaluateRoute(route').q, uniformity_weight)
                    <= ScoreFloor(Len(route) - 1, LegsFrom(route, 1),
                                  EvaluateRoute(route).q, uniformity_weight)]_vars
    /\ (pc = "two_opt") ~> (pc # "two_opt")

\* The refiner of the greedy regime has ended on another route than the one it
\* began with.
C19_Witness ==
    /\ pc = "result"
    /\ num_pubs > SamplingLimit
    /\ best_route # nn_route
    /\ Len(best_route) = num_pubs + 2

\* Whether reversing positions i..j of r (counted from 0) passes the
\* forward-progress constraint at threshold 0.05 and strictly lowers the objective.
Lowers(r, w, i, j) ==
    /\ ~ViolatesForwardProgress(start_point, end_point, ReverseSegment(r, i, j), 1, 20)
    /\ Improves(ReverseSegment(r, i, j), r, w)

\* The pairs 1 <= i < j <= len - 2 whose reversal lowers r.
LoweringPairs(r, w) ==
    {ij \in (1..(Len(r) - 2)) \X (1..(Len(r) - 2)) :
        ij[1] < ij[2] /\ Lowers(r, w, ij[1], ij[2])}

\* The order of the scan: i ascending, and j ascending for each i.
ScannedBefore(a, b) == a[1] < b[1] \/ (a[1] = b[1] /\ a[2] <= b[2])

\* C20: the route the local search refiner returns is a constrained 2-opt local
\* optimum: no pair of positions i, j with 1 <= i < j <= len - 2 has a reversal
\* that satisfies the forward-progress constraint at threshold 0.05 and strictly
\* lowers the objective; and after every accepted reversal the scan restarts from
\* the first pair: the reversal accepted is that of the first pair, in the order
\* of the scan, that lowers the route the refiner holds.
C20_LocalOptimum ==
    [][pc = "two_opt" =>
          LET lowering == LoweringPairs(route, uniformity_weight)
          IN  /\ pc' \in {"filter", "result"} => (route' = route /\ lowering = {})
              /\ pc' = "result" => best_route' = route
              /\ Accepted =>
                    \E first \in lowering :
                        /\ \A other \in lowering : ScannedBefore(first, other)
                        /\ route' = ReverseSegment(route, first[1], first[2])
      ]_vars

\* A sample's refinement has ended after an accepted reversal.
C20_Witness ==
    /\ pc = "filter"
    /\ Len(route) >= 5
    /\ route # nn_route
    /\ LoweringPairs(route, uniformity_weight) = {}

\* The distance accessor raised during planning: the call ended with a ValueError
\* while the tour under evaluation has a leg the accessor cannot resolve.
DistanceFault ==
    /\ pc = "raised"
    /\ err = "ValueError"
    /\ route # <<>>
    /\ ~Resolvable(route)

DirectionsFailed == \E i \in DOMAIN direction_requests : ~direction_requests[i].ok

\* C18: the direction provider is consulted only once planner.plan_crawl has
\* returned the plan, consulting it changes neither the plan nor the planner's
\* session, and when one of its requests fails the response is still 200 with the
\* plan's route, total distance and estimated time, and with legs = None.
C18_DirectionsOnlyAnnotate ==
    /\ [](direction_requests # <<>> => (pc = "idle" /\ plan # <<>>))
    /\ [][direction_requests' # direction_requests /\ direction_requests' # <<>> =>
            /\ plan' = plan
            /\ UNCHANGED <<session_vars, call_vars>>]_vars
    /\ []((app_pc = "responded" /\ DirectionsFailed) =>
            /\ response.status = 200
            /\ response.route_indices = plan.route
            /\ response.total_distance_meters = plan.total_distance
            /\ response.estimated_time_minutes = plan.estimated_time_minutes
            /\ ~response.legs.present)
C18_Witness ==
    /\ app_pc = "responded"
    /\ DirectionsFailed
    /\ Len(direction_requests) >= 2
    /\ direction_requests[1].ok
    /\ response.status = 200
    /\ Len(response.route_indices) >= 3

\* The pubs between the first and the last position of a tour.
Interior(r) == {r[i] : i \in 2..(Len(r) - 1)}

\* C21: at every step of the local search refiner, and when it hands its tour back,
\* the tour has the start marker first, the end marker last, and between them each
\* pub of the set it was given exactly once.
C21_TourIsPermutation ==
    pc \in {"two_opt", "filter"} =>
        /\ route[1] = Start
        /\ route[Len(route)] = End
        /\ Len(route) = Cardinality(selected) + 2
        /\ Interior(route) = selected
C21_Witness ==
    /\ pc = "two_opt"
    /\ Cardinality(selected) >= 3
    /\ route # nn_route

\* The tour two_opt_with_fixed_endpoints returns when its while loop starts from r.
RECURSIVE RefinedTour(_)
RefinedTour(r) ==
    CHOOSE out \in {IF ij = <<>> THEN r ELSE RefinedTour(ReverseSegment(r, ij[1], ij[2])) :
                       ij \in {FirstDecisive(start_point, end_point, r, uniformity_weight)}} :
        TRUE

\* The refined tours of the samples drawn so far in the running call, in the order
\* drawn, and those of them that pass the forward-progress filter.
RefinedSamples ==
    [i \in DOMAIN draws |->
        RefinedTour(NearestNeighborOrder(start_point, end_point, draws[i]))]
FeasibleSamples(refined) ==
    {i \in DOMAIN refined : ~Violates(start_point, end_point, refined[i])}

\* C22: when the sampling loop has ended, the route kept is the refined tour of a
\* sample that passed the forward-progress filter, no such sample of the call has a
\* lower score, and the route kept is empty when no sample passed.
C22_KeptIsMinimum ==
    (pc = "result" /\ num_pubs <= SamplingLimit) =>
        \E refined \in {RefinedSamples} :
            \E feasible \in {FeasibleSamples(refined)} :
                /\ feasible = {} => best_route = <<>>
                /\ feasible # {} => \E i \in feasible : best_route = refined[i]
                /\ \A i \in feasible :
                      ~ScoreLess(EvaluateRoute(refined[i]), EvaluateRoute(best_route),
                                 uniformity_weight)
C22_Witness ==
    /\ pc = "result"
    /\ num_pubs <= SamplingLimit
    /\ Len(draws) = 2
    /\ \E refined \in {RefinedSamples} :
          /\ FeasibleSamples(refined) = {1, 2}
          /\ ScoreLess(EvaluateRoute(refined[1]), EvaluateRoute(refined[2]),
                       uniformity_weight)
          /\ best_route = refined[1]

\* What one iteration of the greedy loop looks at: the pub it stands on, that pub's
\* progress (0 at the start marker), and for a remaining pub p the sum
\* distance(current, p) + distance(p, End) and the progress lost by going to p,
\* both over ProgressDen.
GreedyCurrent == greedy_route[Len(greedy_route)]
GreedyCurrentProgress ==
    IF IsPub(GreedyCurrent) THEN Progress(start_point, end_point, GreedyCurrent) ELSE 0
GreedySum(p) == GetDistance(GreedyCurrent, p) + GetDistance(p, End)
GreedyLoss(p) == Max(0, GreedyCurrentProgress - Progress(start_point, end_point, p))
GreedyAllowed ==
    {p \in remaining :
        20 * (GreedyCurrentProgress - Progress(start_point, end_point, p))
            <= ProgressDen(start_point, end_point)}
GreedyAppends == pc = "greedy" /\ greedy_route' # greedy_route

\* C23: each greedy step appends a remaining pub that minimizes
\* distance(current, c) + distance(c, End) among the remaining pubs that do not
\* regress by more than 0.05, and among all remaining pubs when none is allowed.
C23_PickMinimizesSum ==
    [][GreedyAppends =>
          \E c \in remaining :
              /\ greedy_route' = Append(greedy_route, c)
              /\ remaining' = remaining \ {c}
              /\ IF GreedyAllowed # {}
                 THEN c \in GreedyAllowed /\ \A p \in GreedyAllowed : GreedySum(c) <= GreedySum(p)
                 ELSE \A p \in remaining : GreedySum(c) <= GreedySum(p)]_vars

\* C23 amended: among the allowed pubs the step minimizes
\* distance(current, c) + distance(c, End) + max(0, progress lost) * 10000, so an
\* allowed pub that loses progress is charged for it; when none is allowed it
\* minimizes the plain sum over all remaining pubs.
C23_PickMinimizesPenalisedSum ==
    [][GreedyAppends =>
          \E c \in remaining :
              /\ greedy_route' = Append(greedy_route, c)
              /\ remaining' = remaining \ {c}
              /\ IF GreedyAllowed # {}
                 THEN /\ c \in GreedyAllowed
                      /\ \A p \in GreedyAllowed :
                            ProgressDen(start_point, end_point) * GreedySum(c)
                                + GreedyLoss(c) * GreedyBacktrackPenalty
                              <= ProgressDen(start_point, end_point) * GreedySum(p)
                                   + GreedyLoss(p) * GreedyBacktrackPenalty
                 ELSE \A p \in remaining : GreedySum(c) <= GreedySum(p)]_vars
\* A step has been taken where a pub that loses progress was allowed and had a
\* smaller sum than the pub appended.
C23_Witness ==
    /\ pc = "greedy"
    /\ Len(greedy_route) >= 3
    /\ \E cut \in 2..(Len(greedy_route) - 1) :
          \E current \in {greedy_route[cut]}, c \in {greedy_route[cut + 1]} :
              \E p \in remaining :
                  /\ Progress(start_point, end_point, p)
                        < Progress(start_point, end_point, current)
                  /\ 20 * (Progress(start_point, end_point, current)
                             - Progress(start_point, end_point, p))
                        <= ProgressDen(start_point, end_point)
                  /\ GetDistance(current, p) + GetDistance(p, End)
                        < GetDistance(current, c) + GetDistance(c, End)

\* The greedy ordering as a tour: the pubs in the order picked, then the end marker.
GreedyOrdering == Append(greedy_route, End)

\* C24: in the greedy regime the local search refiner starts from the greedy
\* ordering, and the route plan_crawl returns has an objective no worse than the
\* greedy ordering's.
C24_RefinedFromGreedyOrdering ==
    /\ [][(pc = "greedy" /\ pc' = "two_opt") => route' = GreedyOrdering]_vars
    /\ []((pc = "done" /\ num_pubs > SamplingLimit) =>
             ~Improves(GreedyOrdering, result.route, uniformity_weight))

\* distance(current, p) + max(0, progress(current) - progress(p)) * 5000, multiplied
\* through by ProgressDen; the progress of the start marker is 0.
PenalisedScore(current, p) ==
    ProgressDen(start_point, end_point) * GetDistance(current, p)
      + Max(0, (IF IsPub(current) THEN Progress(start_point, end_point, current) ELSE 0)
                 - Progress(start_point, end_point, p)) * 5000

\* C25: the tour nearest_neighbor_order returns is the start marker, every pub of
\* the set it was given exactly once, and the end marker; each pub of it has the
\* lowest penalised score, seen from the pub before it, among the pubs not yet
\* visited at that step.
C25_ConstructorPicksLowestPenalised ==
    (pc = "two_opt" /\ nn_route # <<>>) =>
        /\ nn_route[1] = Start
        /\ nn_route[Len(nn_route)] = End
        /\ Len(nn_route) = Cardinality(selected) + 2
        /\ Interior(nn_route) = selected
        /\ \A i \in 2..(Len(nn_route) - 1) : \A j \in i..(Len(nn_route) - 1) :
              PenalisedScore(nn_route[i - 1], nn_route[i])
                <= PenalisedScore(nn_route[i - 1], nn_route[j])
\* A tour in which some pub was passed over although it was nearer than the pub
\* appended: the penalty decided the step.
C25_Witness ==
    /\ pc = "two_opt"
    /\ Len(nn_route) >= 5
    /\ \E i \in 3..(Len(nn_route) - 1) : \E j \in (i + 1)..(Len(nn_route) - 1) :
          GetDistance(nn_route[i - 1], nn_route[j]) < GetDistance(nn_route[i - 1], nn_route[i])

\* The call is past precompute_endpoint_distances and has not returned: it is
\* sampling, constructing, refining, scoring or building its result.
Searching == pc \in {"optimize", "sample", "two_opt", "filter", "greedy", "result"}

\* C26: no step of a plan_crawl call changes the distance matrix or the registry
\* (and so its size), and once the endpoint distances are cached no step of the
\* search changes the endpoint cache or the candidate sequence.
C26_PlanningReadsOnly ==
    [][/\ pub_coords' = pub_coords
       /\ distance_matrix' = distance_matrix
       /\ Searching => (distance_cache' = distance_cache /\ candidates' = candidates)]_vars
C26_Witness ==
    /\ pc = "result"
    /\ calls = 2
    /\ steps >= num_pubs
    /\ num_pubs > SamplingLimit
    /\ best_route # nn_route
    /\ DOMAIN distance_cache # {}

\* The forward-progress constraint at threshold 0.05 fails on the tour r.
Infeasible(r) == ViolatesForwardProgress(start_point, end_point, r, 1, 20)

\* C27: while the local search refiner runs and when it returns, its tour satisfies
\* the forward-progress constraint at threshold 0.05 whenever the nearest-neighbour
\* ordering it started from does; a tour of it that violates the constraint is that
\* starting tour itself.
C27_RefinerKeepsFeasible ==
    pc \in {"two_opt", "filter"} =>
        /\ ~Infeasible(nn_route) => ~Infeasible(route)
        /\ Infeasible(route) => route = nn_route
C27_Witness ==
    /\ pc = "two_opt"
    /\ Cardinality(selected) >= 3
    /\ route # nn_route
    /\ ~Infeasible(nn_route)
    /\ \E i \in 1..(Len(route) - 3) : \E j \in (i + 1)..(Len(route) - 2) :
          Infeasible(ReverseSegment(route, i, j))

\* The pubs whose endpoint distances a step of the search can read: the pubs of
\* the sample or of the greedy loop's remaining set, and of every tour in hand.
PubsInHand ==
    selected \cup remaining \cup SeqToSet(PubSequence(route))
        \cup SeqToSet(PubSequence(nn_route)) \cup SeqToSet(PubSequence(greedy_route))
        \cup SeqToSet(PubSequence(best_route))

\* C28: in every call of a session, the start -> pub and pub -> end distances the
\* search can read are those of the call's own candidates, and the cache holds for
\* them what the oracle answered in this call for this call's start and end; an
\* entry left by an earlier call is at a key the call does not read.
C28_ReadsOwnEntries ==
    Searching =>
        \A p \in PubsInHand :
            \E i \in 1..Len(candidates) :
                /\ candidates[i] = p
                /\ <<Start, p>> \in DOMAIN distance_cache
                /\ <<p, End>> \in DOMAIN distance_cache
                /\ distance_cache[<<Start, p>>] = start_distances[i]
                /\ distance_cache[<<p, End>>] = end_distances[i]
\* A second call is refining a tour while the cache still holds an entry of the
\* first call for a pub that is no candidate of the second.
C28_Witness ==
    /\ calls = 2
    /\ pc = "two_opt"
    /\ \E key \in DOMAIN distance_cache : key \notin CandidateKeys(candidates)


\* C29: precompute_in_progress is true only while a precomputation is executing;
\* when a call's precomputation finishes, with 200 or with 500, the flag is
\* false; a call that finds the flag true answers 409, starts no precomputation,
\* writes no matrix and leaves the flag true.
C29_FlagOnlyWhileComputing ==
    /\ [](precompute_in_progress => Computing # {})
    /\ [][\A c \in Callers :
            (trigger_pc[c] = "computing" /\ trigger_pc'[c] = "done") =>
                /\ ~precompute_in_progress'
                /\ trigger_response'[c] \in {Some(200), Some(500)}]_vars
    /\ [][\A c \in Callers :
            (precompute_in_progress /\ trigger_pc[c] = "idle" /\ trigger_pc'[c] # "idle") =>
                /\ trigger_pc'[c] = "done"
                /\ trigger_response'[c] = Some(409)
                /\ precompute_in_progress'
                /\ Computing' = Computing
                /\ <<distances_file, app_planner>>' = <<distances_file, app_planner>>]_vars

\* A call stands rejected with 409 while another call's precomputation runs, the
\* flag is still set, and GET /api/status has reported is_computing.
C29_Witness ==
    \E c, d \in Callers :
        /\ trigger_pc[c] = "done"
        /\ trigger_response[c] = Some(409)
        /\ trigger_pc[d] = "computing"
        /\ precompute_in_progress
        /\ status # <<>>
        /\ status.is_computing

\* The answer a shared-route handler gives in the step, when it gives one.
LastAnswer == share_responses[Len(share_responses)]

\* C30: a get of a stored route whose expires_at has passed deletes that row and
\* answers 410, never 200; a get of a route that is not stored answers 404, and an
\* id that has left the table never returns to it, so every get after a 410 for the
\* same id answers 404; a get of a stored route that has not expired leaves its
\* row, with its expiry time, in the table.
C30_ExpiredIsDeletedOnce ==
    /\ [][\A id \in ShareIds :
            (/\ Len(share_responses') = Len(share_responses) + 1
             /\ LastAnswer'.op = "get"
             /\ LastAnswer'.share_id = id) =>
                IF RowsOf(id) = {}
                THEN LastAnswer'.status = 404 /\ shared_routes' = shared_routes
                ELSE \A row \in RowsOf(id) :
                        IF utcnow > row.expires_at
                        THEN /\ LastAnswer'.status = 410
                             /\ shared_routes' = shared_routes \ {row}
                        ELSE /\ LastAnswer'.status \notin {404, 410}
                             /\ \E kept \in shared_routes' :
                                   /\ kept.share_id = id
                                   /\ kept.expires_at = row.expires_at
                             /\ {r \in shared_routes' : r.share_id # id} =
                                    {r \in shared_routes : r.share_id # id}]_vars
    /\ [][\A id \in ShareIds : RowsOf(id) = {} => RowsOf(id)' = {}]_vars
    /\ [](\A i, j \in 1..Len(share_responses) :
            (/\ i < j
             /\ share_responses[i] = Answer("get", share_responses[i].share_id, 410)
             /\ share_responses[j].op = "get"
             /\ share_responses[j].share_id = share_responses[i].share_id) =>
                share_responses[j].status = 404)
    /\ [](\A i \in 1..Len(share_responses) :
            share_responses[i].op = "get" => share_responses[i].status # 200)

\* A get answered 410 and a later get for the same id answered 404, while a
\* get of the other, unexpired row left it stored.
C30_Witness ==
    \E i, j, k \in 1..Len(share_responses) :
        /\ i < j
        /\ share_responses[i].op = "get" /\ share_responses[i].status = 410
        /\ share_responses[j] = Answer("get", share_responses[i].share_id, 404)
        /\ share_responses[k].op = "get" /\ share_responses[k].status = 500
        /\ RowsOf(share_responses[k].share_id) # {}

====
